---- MODULE Spec2Model ----
(***************************************************************************)
(* A model of the tracing JIT of rapidus (src/src/jit.rs): the hotness     *)
(* counters, the function and loop records, the return-type map, the LLVM  *)
(* module the JIT fills, the lowering of bytecode to IR (gen_body) and the *)
(* shims that run compiled code against the interpreter's stack.           *)
(*                                                                         *)
(* Numbers (f64) are modelled by integers.  A usize key obtained by        *)
(* `(x as i32) as usize` is represented by the i32 it was cast from (the   *)
(* cast is injective).  An IR value, a literal vm::Value and an IR         *)
(* instruction are records of one shape each.                              *)
(***************************************************************************)
EXTENDS Integers, Sequences, FiniteSets, TLC

(***************************************************************************)
(* Opcodes (vm.rs; the ones jit.rs imports).                               *)
(***************************************************************************)
END == 0
CREATE_CONTEXT == 1
CONSTRUCT == 2
CREATE_OBJECT == 3
PUSH_INT8 == 4
PUSH_INT32 == 5
PUSH_FALSE == 6
PUSH_TRUE == 7
PUSH_CONST == 8
PUSH_THIS == 9
ADD == 10
SUB == 11
MUL == 12
DIV == 13
REM == 14
LT == 15
GT == 16
LE == 17
GE == 18
EQ == 19
NE == 20
GET_MEMBER == 21
SET_MEMBER == 22
GET_GLOBAL == 23
SET_GLOBAL == 24
GET_LOCAL == 25
SET_LOCAL == 26
JMP_IF_FALSE == 27
JMP == 28
CALL == 29
RETURN == 30
\* the opcodes jit.rs imports that the vm.rs at hand does not define yet,
\* numbered after the others in the order of the opcode alphabet
SEQ == 31
SNE == 32
NEG == 33
GET_ARG_LOCAL == 34
SET_ARG_LOCAL == 35
PUSH_ARGUMENTS == 36
ASG_FREST_PARAM == 37
CREATE_ARRAY == 38

(***************************************************************************)
(* Program constants of jit.rs.                                            *)
(***************************************************************************)
MAX_FUNCTION_PARAMS == 3
FUNC_THRESHOLD == 5
LOOP_THRESHOLD == 7

BUILTIN_CONSOLE_LOG_F64 == 0
BUILTIN_CONSOLE_LOG_STRING == 1
BUILTIN_CONSOLE_LOG_NEWLINE == 2
BUILTIN_PROCESS_STDOUT_WRITE == 3
BUILTIN_MATH_POW == 4
BUILTIN_MATH_FLOOR == 5
BUILTIN_MATH_RANDOM == 6

(***************************************************************************)
(* Bounds of the model.                                                    *)
(***************************************************************************)
\* the largest argc the interpreter passes to can_jit
MaxArgc == 4
\* interpreter stack slots hold Number(0) .. Number(MaxNum), or a non-Number
MaxNum == 1
\* the number of steps a run of compiled code may take before it is cut
MaxFuel == 40
\* the largest Number a run of compiled code may leave in a stack slot
MaxVal == 3

(***************************************************************************)
(* Values.                                                                 *)
(***************************************************************************)
\* vm::Value: a tag and a payload (the number, the bool as 0/1, the string
\* id, the function's entry pc, the builtin id, the object id)
Val(tag, v) == [tag |-> tag, v |-> v]
Number(n) == Val("Number", n)
Bool(b) == Val("Bool", b)
Undefined == Val("Undefined", 0)
\* Option<vm::Value>::None on the operand stack
NoLit == Val("None", 0)

\* ValueType -> LLVM type (to_llvmty)
to_llvmty(ty) ==
  CASE ty = "Number" -> "double"
    [] ty = "String" -> "i8*"
    [] ty = "Bool" -> "i1"

\* An IR value: k is "const" (v the constant), "inst" (v the id of the
\* instruction that defines it), "param" (v the parameter index), "fn" (v the
\* index of the function in the module) or "null" (ptr::null_mut()).
IRV(k, ty, v) == [k |-> k, ty |-> ty, v |-> v]
NullV == IRV("null", "none", 0)

\* An IR instruction: id names its result, args are IR values, tgt are block
\* indices (branch targets).
Ins(op, id, ty, args, tgt) == [op |-> op, id |-> id, ty |-> ty, args |-> args, tgt |-> tgt]

IsTerminator(i) == i.op \in {"ret", "br", "condbr"}


(***************************************************************************)
(* Finite maps (HashMap) as functions.                                     *)
(***************************************************************************)
EmptyMap == [x \in {} |-> 0]
Has(m, k) == k \in DOMAIN m
MapPut(m, k, v) == [x \in (DOMAIN m) \cup {k} |-> IF x = k THEN v ELSE m[x]]

\* every ordering of a finite set (the iteration orders of a HashSet or HashMap)
Orders(S) == {q \in [1..Cardinality(S) -> S] : \A x \in S : \E i \in DOMAIN q : q[i] = x}

RECURSIVE SeqSum(_)
SeqSum(q) == IF q = <<>> THEN 0 ELSE Head(q) + SeqSum(Tail(q))

(***************************************************************************)
(* Bytecode Reader: get_int8! and get_int32! (jit.rs 45-60).  insts is a   *)
(* sequence of bytes; pc counts from 0.                                    *)
(***************************************************************************)
Byte(insts, pc) == insts[pc + 1]

\* an index past the buffer panics (Rust bounds check)
InBuf(insts, pc, n) == pc >= 0 /\ pc + n <= Len(insts)

\* get_int8!(insts, pc, n, isize): `u8 as isize` zero-extends
get_int8(insts, pc) == Byte(insts, pc)

\* get_int32!(.., i32): the shift of the top byte wraps into the sign bit
get_int32_i32(insts, pc) ==
  LET b3 == Byte(insts, pc + 3)
  IN (IF b3 >= 128 THEN b3 - 256 ELSE b3) * 16777216
       + Byte(insts, pc + 2) * 65536 + Byte(insts, pc + 1) * 256 + Byte(insts, pc)

\* get_int32!(.., usize) and (.., isize): 64-bit, so the four bytes are read
\* unsigned
get_int32_usize(insts, pc) ==
  Byte(insts, pc + 3) * 16777216
    + Byte(insts, pc + 2) * 65536 + Byte(insts, pc + 1) * 256 + Byte(insts, pc)


(***************************************************************************)
(* Region Scanner.                                                         *)
(***************************************************************************)
\* the opcodes both scanners step over by one byte
ScanWidth1 ==
  {PUSH_FALSE, PUSH_TRUE, PUSH_THIS, ADD, SUB, MUL, DIV, REM, LT, PUSH_ARGUMENTS,
   NEG, GT, LE, GE, EQ, NE, GET_MEMBER, SET_MEMBER}

\* the opcodes collect_arg_and_local_vars steps over by five bytes
CollectWidth5 ==
  {CREATE_CONTEXT, CONSTRUCT, CREATE_OBJECT, PUSH_CONST, PUSH_INT32, SET_GLOBAL,
   CREATE_ARRAY, CALL, JMP, JMP_IF_FALSE, GET_GLOBAL}

\* collect_arg_and_local_vars: the walk from pc to end.  acc is
\* [args, locals, st]; st is "ok", "err" (Err(())) or "panic" (index out of
\* bounds).
RECURSIVE CollectWalk(_, _, _, _)
CollectWalk(insts, pc, end, acc) ==
  IF ~(pc < end) THEN acc
  ELSE IF ~InBuf(insts, pc, 1) THEN [acc EXCEPT !.st = "panic"]
  ELSE LET op == Byte(insts, pc) IN
    IF op \in {END, RETURN} \cup ScanWidth1 THEN CollectWalk(insts, pc + 1, end, acc)
    ELSE IF op \in CollectWidth5 THEN CollectWalk(insts, pc + 5, end, acc)
    ELSE IF op = ASG_FREST_PARAM THEN CollectWalk(insts, pc + 9, end, acc)
    ELSE IF op = PUSH_INT8 THEN CollectWalk(insts, pc + 2, end, acc)
    ELSE IF op \in {SET_ARG_LOCAL, GET_ARG_LOCAL} THEN
      IF ~InBuf(insts, pc + 1, 4) THEN [acc EXCEPT !.st = "panic"]
      ELSE CollectWalk(insts, pc + 5, end,
                       [acc EXCEPT !.args = @ \cup {get_int32_usize(insts, pc + 1)}])
    ELSE IF op \in {GET_LOCAL, SET_LOCAL} THEN
      IF ~InBuf(insts, pc + 1, 4) THEN [acc EXCEPT !.st = "panic"]
      ELSE CollectWalk(insts, pc + 5, end,
                       [acc EXCEPT !.locals = @ \cup {get_int32_usize(insts, pc + 1)}])
    ELSE [acc EXCEPT !.st = "err"]

\* the local slots left out
collect_arg_vars_only(insts, pc, end) ==
  [CollectWalk(insts, pc, end, [args |-> {}, locals |-> {}, st |-> "ok"]) EXCEPT !.locals = {}]

\* collect_arg_and_local_vars(insts, pc, end): the two HashSets and the status
collect_arg_and_local_vars(insts, pc, end) ==
  CollectWalk(insts, pc, end, [args |-> {}, locals |-> {}, st |-> "ok"])

\* the opcodes the label scan of gen_body steps over by five bytes
LabelWidth5 ==
  {CONSTRUCT, CREATE_OBJECT, PUSH_CONST, PUSH_INT32, SET_GLOBAL, GET_LOCAL,
   SET_ARG_LOCAL, GET_ARG_LOCAL, CREATE_ARRAY, SET_LOCAL, CALL, GET_GLOBAL}

\* The first pass of gen_body: every JMP / JMP_IF_FALSE appends a fresh empty
\* block to the function and maps the target pc to it (a second jump to the
\* same target replaces the mapping; the earlier block stays in the function).
\* s is [labels, blocks, st].
RECURSIVE LabelScan(_, _, _, _, _)
LabelScan(insts, pc, end, is_func_jit, s) ==
  IF ~(pc < end) THEN s
  ELSE IF ~InBuf(insts, pc, 1) THEN [s EXCEPT !.st = "panic"]
  ELSE LET op == Byte(insts, pc) IN
    IF op = END THEN s
    ELSE IF op = CREATE_CONTEXT /\ is_func_jit THEN s
    ELSE IF op = CREATE_CONTEXT THEN LabelScan(insts, pc + 5, end, is_func_jit, s)
    ELSE IF op = RETURN \/ op \in ScanWidth1 THEN LabelScan(insts, pc + 1, end, is_func_jit, s)
    ELSE IF op = ASG_FREST_PARAM THEN LabelScan(insts, pc + 9, end, is_func_jit, s)
    ELSE IF op \in LabelWidth5 THEN LabelScan(insts, pc + 5, end, is_func_jit, s)
    ELSE IF op = PUSH_INT8 THEN LabelScan(insts, pc + 2, end, is_func_jit, s)
    ELSE IF op \in {JMP, JMP_IF_FALSE} THEN
      IF ~InBuf(insts, pc + 1, 4) THEN [s EXCEPT !.st = "panic"]
      ELSE LET dst == get_int32_i32(insts, pc + 1)
               blk == Len(s.blocks) + 1
           IN LabelScan(insts, pc + 5, end, is_func_jit,
                        [s EXCEPT !.labels = MapPut(@, pc + 5 + dst, blk),
                                  !.blocks = Append(@, <<>>)])
    ELSE [s EXCEPT !.st = "err"]


(***************************************************************************)
(* IR Builder: the emission state.                                         *)
(*   pc          the cursor                                                *)
(*   stack       the operand stack of (LLVMValueRef, Option<vm::Value>)    *)
(*   blocks      the basic blocks of the function (block 1 is "entry")     *)
(*   cur         the block the builder is positioned at                    *)
(*   labels      target pc -> block                                        *)
(*   positioned  positioned_labels                                         *)
(*   env         (slot id, is_param) -> the pointer of the slot            *)
(*   nid         the next fresh instruction id                             *)
(*   st          "ok", "err" (Err(())) or "panic" (the process dies)       *)
(***************************************************************************)
Err(g) == [g EXCEPT !.st = "err"]
Panic(g) == [g EXCEPT !.st = "panic"]

\* cur_bb_has_no_terminator
cur_bb_has_no_terminator(g) ==
  LET b == g.blocks[g.cur] IN b = <<>> \/ ~IsTerminator(b[Len(b)])

\* LLVMBuild*: append an instruction to the current block
Build(g, op, ty, args, tgt) ==
  [g EXCEPT !.blocks[g.cur] = Append(@, Ins(op, g.nid, ty, args, tgt)), !.nid = @ + 1]

\* the value of the instruction the last Build on g0 produced
Built(g0, ty) == IRV("inst", ty, g0.nid)

Push(g, v, lit) == [g EXCEPT !.stack = Append(@, [val |-> v, lit |-> lit])]
Pop(g, n) == [g EXCEPT !.stack = SubSeq(@, 1, Len(@) - n)]
\* the i-th entry from the top (0 is the top)
Top(g, i) == g.stack[Len(g.stack) - i]

\* try_stack! succeeds on each of the n topmost entries: present, no literal
TryStack(g, n) ==
  Len(g.stack) >= n /\ \A i \in 0..(n - 1) : Top(g, i).lit = NoLit

\* declare_local_var: the slot's pointer, allocated on first use by an alloca
\* put in front of the entry block
declare_local_var(g, id, is_param) ==
  IF Has(g.env, <<id, is_param>>) THEN g
  ELSE [g EXCEPT !.blocks[1] = <<Ins("alloca", g.nid, "double*", <<>>, <<>>)>> \o @,
                 !.env = MapPut(@, <<id, is_param>>, IRV("inst", "double*", g.nid)),
                 !.nid = @ + 1]

\* gen_body 852-858: entering a pc that is a jump target closes the open
\* block with a branch and moves the builder to the target's block
PositionAtLabel(g) ==
  IF Has(g.labels, g.pc) THEN
    LET bb == g.labels[g.pc]
        g1 == IF cur_bb_has_no_terminator(g) THEN Build(g, "br", "void", <<>>, <<bb>>) ELSE g
    IN [g1 EXCEPT !.cur = bb, !.positioned = @ \cup {g.pc}]
  ELSE g

\* a two-operand arithmetic or comparison opcode
GenBinary(g, op, ty) ==
  IF ~TryStack(g, 2) THEN Err([g EXCEPT !.pc = @ + 1])
  ELSE LET lhs == Top(g, 1).val
           rhs == Top(g, 0).val
           g1 == Build(Pop([g EXCEPT !.pc = @ + 1], 2), op, ty, <<lhs, rhs>>, <<>>)
       IN Push(g1, Built(g, ty), NoLit)

\* REM: fptosi both operands, srem, sitofp
GenRem(g) ==
  IF ~TryStack(g, 2) THEN Err([g EXCEPT !.pc = @ + 1])
  ELSE LET lhs == Top(g, 1).val
           rhs == Top(g, 0).val
           g0 == Pop([g EXCEPT !.pc = @ + 1], 2)
           g1 == Build(g0, "fptosi", "i64", <<lhs>>, <<>>)
           g2 == Build(g1, "fptosi", "i64", <<rhs>>, <<>>)
           g3 == Build(g2, "srem", "i64", <<Built(g0, "i64"), Built(g1, "i64")>>, <<>>)
           g4 == Build(g3, "sitofp", "double", <<Built(g2, "i64")>>, <<>>)
       IN Push(g4, Built(g3, "double"), NoLit)

GenNeg(g) ==
  IF ~TryStack(g, 1) THEN Err([g EXCEPT !.pc = @ + 1])
  ELSE LET g1 == Build(Pop([g EXCEPT !.pc = @ + 1], 1), "fneg", "double", <<Top(g, 0).val>>, <<>>)
       IN Push(g1, Built(g, "double"), NoLit)

\* the two successors of the conditional branch exchanged
GenJmpIfFalse_swapped(g, insts) ==
  IF ~InBuf(insts, g.pc + 1, 4) THEN Panic(g)
  ELSE LET dst == get_int32_i32(insts, g.pc + 1)
           bb_then == Len(g.blocks) + 1
           g1 == [g EXCEPT !.pc = @ + 5, !.blocks = Append(@, <<>>)]
       IN IF ~Has(g.labels, g.pc + 5 + dst) THEN Err(g1)
          ELSE IF ~TryStack(g1, 1) THEN Err(g1)
          ELSE LET g2 == Build(Pop(g1, 1), "condbr", "void", <<Top(g1, 0).val>>,
                               <<g.labels[g.pc + 5 + dst], bb_then>>)
               IN [g2 EXCEPT !.cur = bb_then]

\* gen_body 865-873: the fresh block is the successor taken on true, the
\* label's block the one taken on false
GenJmpIfFalse(g, insts) ==
  IF ~InBuf(insts, g.pc + 1, 4) THEN Panic(g)
  ELSE LET dst == get_int32_i32(insts, g.pc + 1)
           bb_then == Len(g.blocks) + 1
           g1 == [g EXCEPT !.pc = @ + 5, !.blocks = Append(@, <<>>)]
       IN IF ~Has(g.labels, g.pc + 5 + dst) THEN Err(g1)
          ELSE IF ~TryStack(g1, 1) THEN Err(g1)
          ELSE LET g2 == Build(Pop(g1, 1), "condbr", "void", <<Top(g1, 0).val>>,
                               <<bb_then, g.labels[g.pc + 5 + dst]>>)
               IN [g2 EXCEPT !.cur = bb_then]

GenJmp(g, insts) ==
  IF ~InBuf(insts, g.pc + 1, 4) THEN Panic(g)
  ELSE LET dst == get_int32_i32(insts, g.pc + 1)
           g1 == [g EXCEPT !.pc = @ + 5]
       IN IF ~Has(g.labels, g.pc + 5 + dst) THEN Err(g1)
          ELSE IF cur_bb_has_no_terminator(g1)
               THEN Build(g1, "br", "void", <<>>, <<g.labels[g.pc + 5 + dst]>>)
               ELSE g1

GenGetArgLocal(g, insts) ==
  IF ~InBuf(insts, g.pc + 1, 4) THEN Panic(g)
  ELSE LET n == get_int32_usize(insts, g.pc + 1)
           g1 == [g EXCEPT !.pc = @ + 5]
       IN IF ~Has(g.env, <<n, TRUE>>) THEN Err(g1)
          ELSE Push(Build(g1, "load", "double", <<g.env[<<n, TRUE>>]>>, <<>>),
                    Built(g1, "double"), NoLit)

GenSetArgLocal(g, insts) ==
  IF ~InBuf(insts, g.pc + 1, 4) THEN Panic(g)
  ELSE LET n == get_int32_usize(insts, g.pc + 1)
           g1 == [g EXCEPT !.pc = @ + 5]
       IN IF ~TryStack(g1, 1) THEN Err(g1)
          ELSE IF ~Has(g.env, <<n, TRUE>>) THEN Err(g1)
          ELSE Build(Pop(g1, 1), "store", "void", <<Top(g1, 0).val, g.env[<<n, TRUE>>]>>, <<>>)

GenGetLocal(g, insts) ==
  IF ~InBuf(insts, g.pc + 1, 4) THEN Panic(g)
  ELSE LET n == get_int32_usize(insts, g.pc + 1)
           g1 == declare_local_var([g EXCEPT !.pc = @ + 5], n, FALSE)
       IN Push(Build(g1, "load", "double", <<g1.env[<<n, FALSE>>]>>, <<>>),
               Built(g1, "double"), NoLit)

GenSetLocal(g, insts) ==
  IF ~InBuf(insts, g.pc + 1, 4) THEN Panic(g)
  ELSE LET n == get_int32_usize(insts, g.pc + 1)
           g1 == [g EXCEPT !.pc = @ + 5]
       IN IF ~TryStack(g1, 1) THEN Err(g1)
          ELSE LET g2 == declare_local_var(Pop(g1, 1), n, FALSE)
               IN Build(g2, "store", "void", <<Top(g1, 0).val, g2.env[<<n, FALSE>>]>>, <<>>)

GenPushInt8(g, insts) ==
  IF ~InBuf(insts, g.pc + 1, 1) THEN Panic(g)
  ELSE Push([g EXCEPT !.pc = @ + 2], IRV("const", "double", get_int8(insts, g.pc + 1)), NoLit)

GenPushInt32(g, insts) ==
  IF ~InBuf(insts, g.pc + 1, 4) THEN Panic(g)
  ELSE Push([g EXCEPT !.pc = @ + 5],
            IRV("const", "double", get_int32_usize(insts, g.pc + 1)), NoLit)

\* RETURN if is_func_jit
GenReturn(g) ==
  IF ~TryStack(g, 1) THEN Err([g EXCEPT !.pc = @ + 1])
  ELSE Build(Pop([g EXCEPT !.pc = @ + 1], 1), "ret", "void", <<Top(g, 0).val>>, <<>>)


(***************************************************************************)
(* The LLVM module.  A function of the module is                           *)
(*   [name, suffix, ret_ty, params, blocks]                                *)
(* (a declaration has no blocks).  TracingJit::new declares the seven host *)
(* helpers, in this order.                                                 *)
(***************************************************************************)
Fn(name, suffix, ret_ty, params, blocks) ==
  [name |-> name, suffix |-> suffix, ret_ty |-> ret_ty, params |-> params, blocks |-> blocks]

InitModule ==
  << Fn("console_log_string", 0, "void", <<"i8*">>, <<>>),
     Fn("console_log_f64", 0, "void", <<"double">>, <<>>),
     Fn("console_log_newline", 0, "void", <<>>, <<>>),
     Fn("process_stdout_write", 0, "void", <<"i8*">>, <<>>),
     Fn("math_pow", 0, "double", <<"double", "double">>, <<>>),
     Fn("math_floor", 0, "double", <<"double">>, <<>>),
     Fn("math_random", 0, "double", <<>>, <<>>) >>

\* builtin_funcs: BUILTIN_* id -> the helper's function in the module
builtin_funcs ==
  [n \in {BUILTIN_CONSOLE_LOG_F64, BUILTIN_CONSOLE_LOG_STRING, BUILTIN_CONSOLE_LOG_NEWLINE,
          BUILTIN_PROCESS_STDOUT_WRITE, BUILTIN_MATH_POW, BUILTIN_MATH_FLOOR,
          BUILTIN_MATH_RANDOM} |->
     CASE n = BUILTIN_CONSOLE_LOG_STRING -> 1
       [] n = BUILTIN_CONSOLE_LOG_F64 -> 2
       [] n = BUILTIN_CONSOLE_LOG_NEWLINE -> 3
       [] n = BUILTIN_PROCESS_STDOUT_WRITE -> 4
       [] n = BUILTIN_MATH_POW -> 5
       [] n = BUILTIN_MATH_FLOOR -> 6
       [] n = BUILTIN_MATH_RANDOM -> 7]

\* the ids of the host functions a vm::Value::BuiltinFunction carries
builtin_CONSOLE_LOG == 0
builtin_PROCESS_STDOUT_WRITE == 1
builtin_MATH_FLOOR == 2
builtin_MATH_RANDOM == 3
builtin_MATH_POW == 4

\* vm::obj_find_val: the member of an object literal, Undefined when absent
obj_find_val(map, member) == IF Has(map, member) THEN map[member] ELSE Undefined

(***************************************************************************)
(* The context of one compilation, c:                                      *)
(*   insts, const_table, objects   the bytecode and its constants          *)
(*   func_pos, end, is_func_jit    the arguments of gen_body               *)
(*   func                          cur_func: the function being compiled   *)
(*   module                        the module, the function included       *)
(*   func_info                     self.func_info                          *)
(***************************************************************************)
FnV(idx) == IRV("fn", "fn", idx)

\* LLVMBuildCall(callee, args): the result has the callee's return type
BuildCall(g, c, callee, args) ==
  Build(g, "call", c.module[callee].ret_ty, <<FnV(callee)>> \o args, <<>>)

\* infer_ty; "crash" when the value is ptr::null_mut() (LLVMTypeOf(null))
infer_ty(e) ==
  IF e.lit.tag = "String" THEN "String"
  ELSE IF e.val.k = "null" THEN "crash"
  ELSE IF e.val.ty = "i1" THEN "Bool"
  ELSE IF e.val.ty = "double" THEN "Number"
  ELSE "err"

\* CALL, callee with a literal: the pops of the argc arguments, each followed
\* by infer_ty.  The status of the first one that fails, "ok" when none does.
RECURSIVE PopArgs(_, _, _)
PopArgs(g, i, argc) ==
  IF i > argc THEN "ok"
  ELSE IF Len(g.stack) < i THEN "err"
  ELSE LET t == infer_ty(Top(g, i - 1)) IN
    IF t = "crash" THEN "panic"
    ELSE IF t = "err" THEN "err"
    ELSE PopArgs(g, i + 1, argc)

\* console.log: one helper call per argument by its type, then the newline
RECURSIVE GenConsoleLog(_, _, _)
GenConsoleLog(g, c, args) ==
  IF args = <<>> THEN BuildCall(g, c, builtin_funcs[BUILTIN_CONSOLE_LOG_NEWLINE], <<>>)
  ELSE LET ty == infer_ty(Head(args)) IN
    IF ty = "Number"
    THEN GenConsoleLog(BuildCall(g, c, builtin_funcs[BUILTIN_CONSOLE_LOG_F64], <<Head(args).val>>),
                       c, Tail(args))
    ELSE IF ty = "String"
    THEN GenConsoleLog(BuildCall(g, c, builtin_funcs[BUILTIN_CONSOLE_LOG_STRING], <<Head(args).val>>),
                       c, Tail(args))
    ELSE Err(g)

\* process.stdout.write: strings only
RECURSIVE GenStdoutWrite(_, _, _)
GenStdoutWrite(g, c, args) ==
  IF args = <<>> THEN g
  ELSE IF infer_ty(Head(args)) = "String"
  THEN GenStdoutWrite(BuildCall(g, c, builtin_funcs[BUILTIN_PROCESS_STDOUT_WRITE], <<Head(args).val>>),
                      c, Tail(args))
  ELSE Err(g)

\* Math.floor / Math.pow / Math.random: the call reads n arguments from the
\* vector (past its end when fewer were passed: the process dies)
GenMathCall(g, c, helper, n, args) ==
  IF Len(args) < n THEN Panic(g)
  ELSE Push(BuildCall(g, c, builtin_funcs[helper], [i \in 1..n |-> args[i].val]),
            Built(g, "double"), NoLit)

GenCall(g, c) ==
  IF ~InBuf(c.insts, g.pc + 1, 4) THEN Panic(g)
  ELSE LET argc == get_int32_usize(c.insts, g.pc + 1)
           g1 == [g EXCEPT !.pc = @ + 5]
       IN IF Len(g.stack) < 1 THEN Err(g1)
          ELSE LET callee == Top(g, 0)
                   g2 == Pop(g1, 1)
               IN IF callee.lit # NoLit THEN
                    LET st == PopArgs(g2, 1, argc)
                        g3 == Pop(g2, argc)
                        args == SubSeq(g2.stack, Len(g2.stack) - argc + 1, Len(g2.stack))
                    IN IF st = "err" THEN Err(g2)
                       ELSE IF st = "panic" THEN Panic(g2)
                       ELSE IF callee.lit.tag # "BuiltinFunction" THEN Err(g3)
                       ELSE IF callee.lit.v = builtin_CONSOLE_LOG THEN GenConsoleLog(g3, c, args)
                       ELSE IF callee.lit.v = builtin_PROCESS_STDOUT_WRITE
                            THEN GenStdoutWrite(g3, c, args)
                       ELSE IF callee.lit.v = builtin_MATH_FLOOR
                            THEN GenMathCall(g3, c, BUILTIN_MATH_FLOOR, 1, args)
                       ELSE IF callee.lit.v = builtin_MATH_RANDOM
                            THEN GenMathCall(g3, c, BUILTIN_MATH_RANDOM, 0, args)
                       ELSE IF callee.lit.v = builtin_MATH_POW
                            THEN GenMathCall(g3, c, BUILTIN_MATH_POW, 2, args)
                       ELSE Err(g3)
                  ELSE IF Len(g2.stack) < argc THEN Err(g2)
                  \* LLVMBuildCall on a value that is no function: the process dies
                  ELSE IF callee.val.k # "fn" THEN Panic(g2)
                  ELSE LET args == [i \in 1..argc |-> g2.stack[Len(g2.stack) - argc + i].val]
                           g3 == Pop(g2, argc)
                           rty == c.module[callee.val.v].ret_ty
                       IN Push(BuildCall(g3, c, callee.val.v, args), Built(g3, rty), NoLit)

\* Value::to_string of the member name: a String or a Number, else
\* unimplemented!()
GenGetMember(g, c) ==
  LET g1 == [g EXCEPT !.pc = @ + 1] IN
  IF Len(g.stack) < 1 \/ Top(g, 0).lit = NoLit THEN Err(g1)
  ELSE IF Len(g.stack) < 2 \/ Top(g, 1).lit = NoLit THEN Err(g1)
  ELSE LET member == Top(g, 0).lit
           parent == Top(g, 1).lit
       IN IF parent.tag # "Object" THEN Err(g1)
          ELSE IF member.tag \notin {"String", "Number"} THEN Panic(g1)
          ELSE Push(Pop(g1, 2), NullV, obj_find_val(c.objects[parent.v], member))

\* every descriptor taken for the function being compiled
ResolveFunction_self(g, c, pos) == Push(g, FnV(c.func), NoLit)

\* every descriptor looked up in func_info
ResolveFunction_registry(g, c, pos) ==
  IF Has(c.func_info, pos) /\ c.func_info[pos].llvm_func # 0
  THEN Push(g, FnV(c.func_info[pos].llvm_func), NoLit)
  ELSE Err(g)

\* gen_body 1281-1292: the callee a function descriptor for entry pc pos
\* stands for
ResolveFunction(g, c, pos) ==
  IF c.is_func_jit /\ pos = c.func_pos THEN Push(g, FnV(c.func), NoLit)
  ELSE IF Has(c.func_info, pos) /\ c.func_info[pos].llvm_func # 0
       THEN Push(g, FnV(c.func_info[pos].llvm_func), NoLit)
       ELSE Err(g)

GenPushConst(g, c) ==
  IF ~InBuf(c.insts, g.pc + 1, 4) THEN Panic(g)
  ELSE LET n == get_int32_usize(c.insts, g.pc + 1)
           g1 == [g EXCEPT !.pc = @ + 5]
       IN IF n >= Len(c.const_table) THEN Panic(g1)
          ELSE LET k == c.const_table[n + 1] IN
            CASE k.tag = "Bool" -> Push(g1, IRV("const", "i1", k.v), NoLit)
              [] k.tag = "Number" -> Push(g1, IRV("const", "double", k.v), NoLit)
              [] k.tag = "Function" -> ResolveFunction(g1, c, k.v)
              [] k.tag = "String" -> Push(g1, IRV("const", "i8*", k.v), k)
              [] k.tag = "Object" -> Push(g1, NullV, k)
              [] k.tag = "BuiltinFunction" ->
                   IF Has(builtin_funcs, k.v) THEN Push(g1, FnV(builtin_funcs[k.v]), NoLit)
                   ELSE Err(g1)
              [] OTHER -> Err(g1)


\* the comparison and arithmetic opcodes and the IR each lowers to
BinaryIR ==
  [op \in {ADD, SUB, MUL, DIV, LT, LE, GT, GE, EQ, NE, SEQ, SNE} |->
     CASE op = ADD -> <<"fadd", "double">>
       [] op = SUB -> <<"fsub", "double">>
       [] op = MUL -> <<"fmul", "double">>
       [] op = DIV -> <<"fdiv", "double">>
       [] op = LT -> <<"fcmp_olt", "i1">>
       [] op = LE -> <<"fcmp_ole", "i1">>
       [] op = GT -> <<"fcmp_ogt", "i1">>
       [] op = GE -> <<"fcmp_oge", "i1">>
       [] op = EQ -> <<"fcmp_oeq", "i1">>
       [] op = NE -> <<"fcmp_one", "i1">>
       [] op = SEQ -> <<"fcmp_oeq", "i1">>
       [] op = SNE -> <<"fcmp_one", "i1">>]

\* gen_body 860-1358: the lowering of the opcode at g.pc
GenOp(g, c) ==
  LET op == Byte(c.insts, g.pc) IN
  IF op = ASG_FREST_PARAM THEN [g EXCEPT !.pc = @ + 9]
  ELSE IF op \in {CONSTRUCT, CREATE_OBJECT, SET_GLOBAL, CREATE_ARRAY, GET_GLOBAL}
       THEN [g EXCEPT !.pc = @ + 5]
  ELSE IF op \in {PUSH_THIS, PUSH_ARGUMENTS, SET_MEMBER} THEN [g EXCEPT !.pc = @ + 1]
  ELSE IF op = JMP_IF_FALSE THEN GenJmpIfFalse(g, c.insts)
  ELSE IF op = JMP THEN GenJmp(g, c.insts)
  ELSE IF op \in DOMAIN BinaryIR THEN GenBinary(g, BinaryIR[op][1], BinaryIR[op][2])
  ELSE IF op = REM THEN GenRem(g)
  ELSE IF op = NEG THEN GenNeg(g)
  ELSE IF op = GET_ARG_LOCAL THEN GenGetArgLocal(g, c.insts)
  ELSE IF op = SET_ARG_LOCAL THEN GenSetArgLocal(g, c.insts)
  ELSE IF op = GET_LOCAL THEN GenGetLocal(g, c.insts)
  ELSE IF op = SET_LOCAL THEN GenSetLocal(g, c.insts)
  ELSE IF op = CALL THEN GenCall(g, c)
  ELSE IF op = GET_MEMBER THEN GenGetMember(g, c)
  ELSE IF op = PUSH_CONST THEN GenPushConst(g, c)
  ELSE IF op = PUSH_INT8 THEN GenPushInt8(g, c.insts)
  ELSE IF op = PUSH_INT32 THEN GenPushInt32(g, c.insts)
  ELSE IF op = PUSH_TRUE THEN Push([g EXCEPT !.pc = @ + 1], IRV("const", "i1", 1), NoLit)
  ELSE IF op = PUSH_FALSE THEN Push([g EXCEPT !.pc = @ + 1], IRV("const", "i1", 0), NoLit)
  ELSE IF op = RETURN /\ c.is_func_jit THEN GenReturn(g)
  ELSE Err(g)

\* gen_body 850-1359: the emission loop
RECURSIVE EmitWalk(_, _)
EmitWalk(g, c) ==
  IF g.st # "ok" \/ ~(g.pc < c.end) THEN g
  ELSE IF ~InBuf(c.insts, g.pc, 1) THEN Panic(g)
  ELSE LET g1 == PositionAtLabel(g) IN
    IF Byte(c.insts, g.pc) \in {END, CREATE_CONTEXT} THEN g1
    ELSE EmitWalk(GenOp(g1, c), c)

\* every stub returning pc 0
RECURSIVE ResumeStubs_zero(_, _)
ResumeStubs_zero(g, order) ==
  IF order = <<>> THEN g
  ELSE LET pos == Head(order) IN
    IF pos \in g.positioned THEN ResumeStubs_zero(g, Tail(order))
    ELSE ResumeStubs_zero(Build([g EXCEPT !.cur = g.labels[pos]], "ret", "void",
                                <<IRV("const", "i32", 0)>>, <<>>),
                          Tail(order))

\* gen_body 1361-1374 (loop JIT): every label no block was positioned at gets
\* a block that returns its pc.  order is the iteration order of the labels
\* HashMap; the block open when the iteration starts is closed by a branch to
\* the first such label.
RECURSIVE ResumeStubs(_, _)
ResumeStubs(g, order) ==
  IF order = <<>> THEN g
  ELSE LET pos == Head(order) IN
    IF pos \in g.positioned THEN ResumeStubs(g, Tail(order))
    ELSE LET bb == g.labels[pos]
             g1 == IF cur_bb_has_no_terminator(g) THEN Build(g, "br", "void", <<>>, <<bb>>) ELSE g
             g2 == Build([g1 EXCEPT !.cur = bb], "ret", "void", <<IRV("const", "i32", pos)>>, <<>>)
         IN ResumeStubs(g2, Tail(order))

\* gen_body 1361-1376: after the emission loop
GenBodyEnd(g, c, order) ==
  IF g.st = "ok" /\ ~c.is_func_jit THEN ResumeStubs(g, order) ELSE g

\* gen_body 850: the emission starts at bgn with the labels of the scan s
GenBodyEmit(s, c, bgn, g0, order) ==
  GenBodyEnd(EmitWalk([g0 EXCEPT !.pc = bgn, !.labels = s.labels, !.blocks = s.blocks,
                                 !.st = s.st], c),
             c, order)

\* gen_body: the label scan, the emission loop and (loop JIT) the stubs.
\* g0 holds the entry block and the environment the caller prepared.
gen_body(c, bgn, g0, order) ==
  GenBodyEmit(LabelScan(c.insts, bgn, c.end, c.is_func_jit,
                        [labels |-> EmptyMap, blocks |-> g0.blocks, st |-> "ok"]),
              c, bgn, g0, order)

\* the keys of the labels map gen_body builds for a region
LabelKeys(insts, bgn, end, is_func_jit) ==
  DOMAIN LabelScan(insts, bgn, end, is_func_jit,
                   [labels |-> EmptyMap, blocks |-> <<>>, st |-> "ok"]).labels


(***************************************************************************)
(* Function Compiler and Loop Compiler.                                    *)
(***************************************************************************)
\* gen_code_for_func 448-456 / gen_code_for_loop 677-688: every block that
\* lacks a terminator gets `ret v`
TerminateBlocks(blocks, v) ==
  [b \in DOMAIN blocks |->
     IF blocks[b] = <<>> \/ ~IsTerminator(blocks[b][Len(blocks[b])])
     THEN Append(blocks[b], Ins("ret", 0, "void", <<v>>, <<>>))
     ELSE blocks[b]]

\* a verifier that does not compare the operand of a ret with the return type
WellTyped_ret_unchecked(i, f, module) ==
  CASE i.op = "ret" -> TRUE
    [] i.op \in {"fadd", "fsub", "fmul", "fdiv", "fcmp_olt", "fcmp_ole", "fcmp_ogt",
                 "fcmp_oge", "fcmp_oeq", "fcmp_one"} ->
         i.args[1].ty = "double" /\ i.args[2].ty = "double"
    [] i.op \in {"fneg", "fptosi"} -> i.args[1].ty = "double"
    [] i.op = "load" -> i.args[1].ty = "double*"
    [] i.op = "store" -> i.args[1].ty = "double" /\ i.args[2].ty = "double*"
    [] i.op = "condbr" -> i.args[1].ty = "i1"
    [] i.op = "call" ->
         LET callee == module[i.args[1].v] IN
           /\ Len(i.args) - 1 = Len(callee.params)
           /\ \A k \in 1..Len(callee.params) : i.args[k + 1].ty = callee.params[k]
    [] OTHER -> TRUE

\* the type rule of the verifier for one instruction of function f
WellTyped(i, f, module) ==
  CASE i.op = "ret" -> i.args[1].ty = f.ret_ty
    [] i.op \in {"fadd", "fsub", "fmul", "fdiv", "fcmp_olt", "fcmp_ole", "fcmp_ogt",
                 "fcmp_oge", "fcmp_oeq", "fcmp_one"} ->
         i.args[1].ty = "double" /\ i.args[2].ty = "double"
    [] i.op \in {"fneg", "fptosi"} -> i.args[1].ty = "double"
    [] i.op = "load" -> i.args[1].ty = "double*"
    [] i.op = "store" -> i.args[1].ty = "double" /\ i.args[2].ty = "double*"
    [] i.op = "condbr" -> i.args[1].ty = "i1"
    [] i.op = "call" ->
         LET callee == module[i.args[1].v] IN
           /\ Len(i.args) - 1 = Len(callee.params)
           /\ \A k \in 1..Len(callee.params) : i.args[k + 1].ty = callee.params[k]
    [] OTHER -> TRUE

\* LLVMVerifyFunction: every block ends with its only terminator and every
\* instruction is well typed.  (The dominance of uses by definitions is not
\* modelled.)
VerifyFunction(f, module) ==
  \A b \in DOMAIN f.blocks :
    LET blk == f.blocks[b] IN
      /\ blk # <<>>
      /\ \A k \in DOMAIN blk :
           /\ IsTerminator(blk[k]) <=> k = Len(blk)
           /\ WellTyped(blk[k], f, module)

\* the return type gen_code_for_func declares: the entry of return_ty_map,
\* Number when there is none
FuncRetTy(rtm, pc) == IF Has(rtm, pc) THEN rtm[pc] ELSE "Number"

\* the cap one parameter higher
ArityRejected_four(argc) == argc > MAX_FUNCTION_PARAMS + 1

\* the arity check of gen_code_for_func
ArityRejected(argc) == argc > MAX_FUNCTION_PARAMS

\* gen_code_for_func 423-429: each parameter is stored into a fresh slot
RECURSIVE StoreParams(_, _, _)
StoreParams(g, i, argc) ==
  IF i >= argc THEN g
  ELSE LET g1 == declare_local_var(g, i, TRUE)
       IN StoreParams(Build(g1, "store", "void",
                            <<IRV("param", "double", i), g1.env[<<i, TRUE>>]>>, <<>>),
                      i + 1, argc)

NewGen ==
  [pc |-> 0, stack |-> <<>>, blocks |-> << <<>> >>, cur |-> 1, labels |-> EmptyMap,
   positioned |-> {}, env |-> EmptyMap, nid |-> 1, st |-> "ok"]

\* The outcome of a code generation: st is "ok", "err" (Err(())) or "abort"
\* (the verifier found the function broken, or a panic: the process dies);
\* module is the module afterwards; func the function added (0: none); body
\* tells whether gen_body ran, failed whether the generation itself failed
\* (compilation_failed, or an early Err).
GenResult(st, module, func, body, failed) ==
  [st |-> st, module |-> module, func |-> func, body |-> body, failed |-> failed]

\* gen_code_for_func 448-476 / gen_code_for_loop 677-708: the blocks gen_body
\* left are terminated (by `ret zero`), the function is verified, and the
\* failure of gen_body is reported
FinishGen(g, decl, module, zero) ==
  LET f == [decl EXCEPT !.blocks = TerminateBlocks(g.blocks, zero)]
      m == Append(module, f)
  IN IF g.st = "panic" \/ ~VerifyFunction(f, m) THEN GenResult("abort", m, Len(m), TRUE, g.st = "err")
     ELSE IF g.st = "err" THEN GenResult("err", m, Len(m), TRUE, TRUE)
     ELSE GenResult("ok", m, Len(m), TRUE, FALSE)

\* the context gen_code_for_func / gen_code_for_loop hands to gen_body
GenContext(p, module, decl, finfo, func_pos, end, is_func_jit) ==
  [insts |-> p.insts, const_table |-> p.const_table, objects |-> p.objects,
   func_pos |-> func_pos, end |-> end, is_func_jit |-> is_func_jit,
   func |-> Len(module) + 1, module |-> Append(module, decl), func_info |-> finfo]

\* gen_code_for_func 394-412: the function added to the module
FuncDecl(suffix, rtm, pc, argc) ==
  Fn("func", suffix, to_llvmty(FuncRetTy(rtm, pc)), [i \in 1..argc |-> "double"], << <<>> >>)

\* gen_code_for_func 399-476
GenFunc(decl, p, module, finfo, pc, argc) ==
  FinishGen(gen_body(GenContext(p, module, decl, finfo, pc, Len(p.insts), TRUE),
                     pc + 5, StoreParams(NewGen, 0, argc), <<>>),
            decl, module, IRV("const", decl.ret_ty, 0))

\* gen_code_for_func(name, insts, const_table, pc, argc)
gen_code_for_func(suffix, p, module, finfo, rtm, pc, argc) ==
  IF ArityRejected(argc) THEN GenResult("err", module, 0, FALSE, TRUE)
  ELSE GenFunc(FuncDecl(suffix, rtm, pc, argc), p, module, finfo, pc, argc)

\* the slots bound to the indices in the reverse order of the list
RECURSIVE BindSlots_reversed(_, _, _, _)
BindSlots_reversed(g, vars, i, is_param) ==
  IF i > Len(vars) THEN g
  ELSE LET p == IRV("param", "double*", IF is_param THEN 0 ELSE 1)
           g1 == Build(g, "gep", "double*", <<p, IRV("const", "i32", i - 1)>>, <<>>)
       IN BindSlots_reversed(
            [g1 EXCEPT !.env = MapPut(@, <<vars[Len(vars) + 1 - i], is_param>>,
                                      Built(g, "double*"))],
            vars, i + 1, is_param)

\* gen_code_for_loop 634-670: slot i of each list is addressed by a GEP at
\* index i of the first (argument) or second (local) pointer parameter
RECURSIVE BindSlots(_, _, _, _)
BindSlots(g, vars, i, is_param) ==
  IF i > Len(vars) THEN g
  ELSE LET p == IRV("param", "double*", IF is_param THEN 0 ELSE 1)
           g1 == Build(g, "gep", "double*", <<p, IRV("const", "i32", i - 1)>>, <<>>)
       IN BindSlots([g1 EXCEPT !.env = MapPut(@, <<vars[i], is_param>>, Built(g, "double*"))],
                    vars, i + 1, is_param)

\* gen_code_for_loop 608-623: the function added to the module
LoopDecl(suffix) == Fn("func", suffix, "i32", <<"double*", "double*">>, << <<>> >>)

\* gen_code_for_loop 608-708
GenLoop(decl, p, module, finfo, bgn, end, arg_vars, local_vars, order) ==
  FinishGen(gen_body(GenContext(p, module, decl, finfo, bgn, end, FALSE), bgn,
                     BindSlots(BindSlots(NewGen, arg_vars, 1, TRUE), local_vars, 1, FALSE),
                     order),
            decl, module, IRV("const", "i32", end))

\* gen_code_for_loop 606: the outcome of collect_arg_and_local_vars decides
\* whether anything is generated
GenLoopCollected(st, suffix, p, module, finfo, bgn, end, arg_vars, local_vars, order) ==
  IF st = "panic" THEN GenResult("abort", module, 0, FALSE, FALSE)
  ELSE IF st = "err" THEN GenResult("err", module, 0, FALSE, TRUE)
  ELSE GenLoop(LoopDecl(suffix), p, module, finfo, bgn, end, arg_vars, local_vars, order)

\* gen_code_for_loop(name, insts, const_table, bgn, end); arg_vars and
\* local_vars are the orders in which the two HashSets were iterated, order
\* the one of the labels map
gen_code_for_loop(suffix, p, module, finfo, bgn, end, arg_vars, local_vars, order) ==
  GenLoopCollected(collect_arg_and_local_vars(p.insts, bgn, end).st, suffix, p, module, finfo,
                   bgn, end, arg_vars, local_vars, order)

(***************************************************************************)
(* Running compiled code.  A pointer is <<"arr", p, i>> (element i of the  *)
(* array parameter p points to) or <<"slot", id, 0>> (the alloca id).  An  *)
(* execution e is [blk, k, regs, mem, fuel, st, ret]: st is "run", "ret"   *)
(* (returned ret) or "cut" (out of fuel, or a step this model does not     *)
(* follow: an inexact quotient, a read of memory never written, a call).   *)
(***************************************************************************)
Eval(v, e, params) ==
  CASE v.k = "const" -> v.v
    [] v.k = "inst" -> e.regs[v.v]
    [] v.k = "param" -> params[v.v + 1]
    [] OTHER -> v.v

\* srem: the remainder has the sign of the dividend
SRem(a, b) ==
  LET m == IF b < 0 THEN -b ELSE b
  IN IF a >= 0 THEN a % m ELSE -((-a) % m)

Cut(e) == [e EXCEPT !.st = "cut"]
SetReg(e, id, v) == [e EXCEPT !.regs = MapPut(@, id, v), !.k = @ + 1, !.fuel = @ - 1]

RECURSIVE ExecIR(_, _, _)
ExecIR(f, params, e) ==
  IF e.fuel = 0 THEN Cut(e)
  ELSE
    LET i == f.blocks[e.blk][e.k]
        a == Eval(i.args[1], e, params)
        b == Eval(i.args[2], e, params)
    IN
    CASE i.op = "ret" -> [e EXCEPT !.st = "ret", !.ret = a]
      [] i.op = "br" -> ExecIR(f, params, [e EXCEPT !.blk = i.tgt[1], !.k = 1, !.fuel = @ - 1])
      [] i.op = "condbr" ->
           ExecIR(f, params, [e EXCEPT !.blk = IF a = 1 THEN i.tgt[1] ELSE i.tgt[2],
                                          !.k = 1, !.fuel = @ - 1])
      [] i.op = "fadd" -> ExecIR(f, params, SetReg(e, i.id, a + b))
      [] i.op = "fsub" -> ExecIR(f, params, SetReg(e, i.id, a - b))
      [] i.op = "fmul" -> ExecIR(f, params, SetReg(e, i.id, a * b))
      [] i.op = "fdiv" ->
           IF b = 0 \/ SRem(a, b) # 0 THEN Cut(e)
           ELSE ExecIR(f, params, SetReg(e, i.id, (a - SRem(a, b)) \div b))
      [] i.op = "fcmp_olt" -> ExecIR(f, params, SetReg(e, i.id, IF a < b THEN 1 ELSE 0))
      [] i.op = "fcmp_ole" -> ExecIR(f, params, SetReg(e, i.id, IF a <= b THEN 1 ELSE 0))
      [] i.op = "fcmp_ogt" -> ExecIR(f, params, SetReg(e, i.id, IF a > b THEN 1 ELSE 0))
      [] i.op = "fcmp_oge" -> ExecIR(f, params, SetReg(e, i.id, IF a >= b THEN 1 ELSE 0))
      [] i.op = "fcmp_oeq" -> ExecIR(f, params, SetReg(e, i.id, IF a = b THEN 1 ELSE 0))
      [] i.op = "fcmp_one" -> ExecIR(f, params, SetReg(e, i.id, IF a # b THEN 1 ELSE 0))
      [] i.op = "fneg" -> ExecIR(f, params, SetReg(e, i.id, -a))
      [] i.op \in {"fptosi", "sitofp"} -> ExecIR(f, params, SetReg(e, i.id, a))
      [] i.op = "srem" ->
           IF b = 0 THEN Cut(e) ELSE ExecIR(f, params, SetReg(e, i.id, SRem(a, b)))
      [] i.op = "alloca" -> ExecIR(f, params, SetReg(e, i.id, <<"slot", i.id, 0>>))
      [] i.op = "gep" -> ExecIR(f, params, SetReg(e, i.id, <<"arr", a[2], a[3] + b>>))
      [] i.op = "load" ->
           IF ~Has(e.mem, a) THEN Cut(e) ELSE ExecIR(f, params, SetReg(e, i.id, e.mem[a]))
      [] i.op = "store" ->
           ExecIR(f, params, [e EXCEPT !.mem = MapPut(@, b, a), !.k = @ + 1, !.fuel = @ - 1])
      [] OTHER -> Cut(e)

NewExec(mem, fuel) ==
  [blk |-> 1, k |-> 1, regs |-> EmptyMap, mem |-> mem, fuel |-> fuel, st |-> "run", ret |-> 0]

(***************************************************************************)
(* Executor: the loop shim.  The interpreter stack is a sequence of values *)
(* (index 0 first); bp and lp are vm_state.bp and vm_state.lp.             *)
(***************************************************************************)
Slot(stack, i) == stack[i + 1]

\* every value marshalled, whatever its tag
AllNumbers_any(stack, bp, lp, arg_vars, local_vars) == TRUE

\* run_loop_llvm_func 1444-1455: every named slot holds a Number
AllNumbers(stack, bp, lp, arg_vars, local_vars) ==
  /\ \A i \in DOMAIN arg_vars : Slot(stack, bp + arg_vars[i]).tag = "Number"
  /\ \A i \in DOMAIN local_vars : Slot(stack, lp + local_vars[i]).tag = "Number"

\* the two packed arrays as memory
PackedArrays(stack, bp, lp, arg_vars, local_vars) ==
  [p \in {<<"arr", 0, i - 1>> : i \in DOMAIN arg_vars}
           \cup {<<"arr", 1, i - 1>> : i \in DOMAIN local_vars} |->
     IF p[2] = 0 THEN Slot(stack, bp + arg_vars[p[3] + 1]).v
     ELSE Slot(stack, lp + local_vars[p[3] + 1]).v]

\* each element written one position further up the stack
RECURSIVE WriteBack_next(_, _, _, _, _, _)
WriteBack_next(stack, base, vars, mem, p, i) ==
  IF i > Len(vars) THEN stack
  ELSE WriteBack_next([stack EXCEPT ![((base + vars[i] + 1) % Len(stack)) + 1] =
                                      Number(mem[<<"arr", p, i - 1>>])],
                      base, vars, mem, p, i + 1)

\* run_loop_llvm_func 1464-1469: the write-back of one array, in order
RECURSIVE WriteBack(_, _, _, _, _, _)
WriteBack(stack, base, vars, mem, p, i) ==
  IF i > Len(vars) THEN stack
  ELSE WriteBack([stack EXCEPT ![base + vars[i] + 1] = Number(mem[<<"arr", p, i - 1>>])],
                 base, vars, mem, p, i + 1)

\* run_loop_llvm_func 1458-1471: after the native call e
LoopReturned(e, stack, bp, lp, arg_vars, local_vars) ==
  IF e.st = "cut" THEN [st |-> "cut", pc |-> 0, stack |-> stack]
  ELSE [st |-> "some", pc |-> e.ret,
        stack |-> WriteBack(WriteBack(stack, bp, arg_vars, e.mem, 0, 1),
                            lp, local_vars, e.mem, 1, 1)]

\* run_loop_llvm_func(f, vm_state, arg_vars, local_vars): st is "none" (None,
\* the native code not called), "some" (Some(pc)) or "cut"
run_loop_llvm_func(f, stack, bp, lp, arg_vars, local_vars) ==
  IF ~AllNumbers(stack, bp, lp, arg_vars, local_vars)
  THEN [st |-> "none", pc |-> 0, stack |-> stack]
  ELSE LoopReturned(ExecIR(f, << <<"arr", 0, 0>>, <<"arr", 1, 0>> >>,
                           NewExec(PackedArrays(stack, bp, lp, arg_vars, local_vars), MaxFuel)),
                    stack, bp, lp, arg_vars, local_vars)

(***************************************************************************)
(* Executor: the function shim.                                            *)
(***************************************************************************)
\* run_llvm_func 1403-1428, the native call: the pointer is cast to a function
\* of Len(args) doubles returning ty and called.  Called under another
\* signature than the one of f, it returns whatever the registers hold
\* ("any"); e is the execution of f on the arguments.
NativeCall(f, ty, args, e) ==
  IF Len(args) # Len(f.params) \/ to_llvmty(ty) # f.ret_ty THEN [st |-> "any", tag |-> ty, v |-> 0]
  ELSE IF e.st = "cut" THEN [st |-> "cut", tag |-> ty, v |-> 0]
  ELSE [st |-> "value", tag |-> ty, v |-> e.ret]

\* run_llvm_func(pc, f, args) with ty the entry of return_ty_map at pc (Number
\* when there is none): "panic" (unimplemented!(): a value that is no Number,
\* more than three arguments, a String return type), else the native call
run_llvm_func(f, ty, args) ==
  IF \E i \in DOMAIN args : args[i].tag # "Number" THEN [st |-> "panic", tag |-> ty, v |-> 0]
  ELSE IF Len(args) > 3 \/ ty \notin {"Number", "Bool"} THEN [st |-> "panic", tag |-> ty, v |-> 0]
  ELSE NativeCall(f, ty, args,
                  ExecIR(f, [i \in DOMAIN args |-> args[i].v], NewExec(EmptyMap, MaxFuel)))

(***************************************************************************)
(* The interpreter (vm.rs), as far as the opcodes of a loop region go.  A  *)
(* run s is [pc, stack, fuel, st]: st is "run", "panic" (the process dies) *)
(* or "cut" (out of fuel, or a step this model does not follow).  The      *)
(* operands live on top of the frame, on the same stack.                   *)
(***************************************************************************)
VmPush(s, v, w) == [s EXCEPT !.stack = Append(@, v), !.pc = @ + w, !.fuel = @ - 1]

\* fn binary: rhs is popped first; two Numbers give a Number or a Bool
binary(s, op) ==
  LET rhs == s.stack[Len(s.stack)]
      lhs == s.stack[Len(s.stack) - 1]
      s1 == [s EXCEPT !.stack = SubSeq(@, 1, Len(@) - 2)]
      n1 == lhs.v
      n2 == rhs.v
      cmp(b) == VmPush(s1, Bool(IF b THEN 1 ELSE 0), 1)
  IN IF Len(s.stack) < 2 THEN [s EXCEPT !.st = "panic"]
     ELSE IF lhs.tag # "Number" \/ rhs.tag # "Number" THEN [s EXCEPT !.st = "cut"]
     ELSE CASE op = ADD -> VmPush(s1, Number(n1 + n2), 1)
            [] op = SUB -> VmPush(s1, Number(n1 - n2), 1)
            [] op = MUL -> VmPush(s1, Number(n1 * n2), 1)
            [] op = DIV -> IF n2 = 0 \/ SRem(n1, n2) # 0 THEN [s EXCEPT !.st = "cut"]
                           ELSE VmPush(s1, Number((n1 - SRem(n1, n2)) \div n2), 1)
            [] op = REM -> IF n2 = 0 THEN [s EXCEPT !.st = "panic"]
                           ELSE VmPush(s1, Number(SRem(n1, n2)), 1)
            [] op = LT -> cmp(n1 < n2)
            [] op = GT -> cmp(n1 > n2)
            [] op = LE -> cmp(n1 <= n2)
            [] op = GE -> cmp(n1 >= n2)
            [] op = EQ -> cmp(n1 = n2)
            [] op = NE -> cmp(n1 # n2)

\* the handlers of GET_LOCAL / SET_LOCAL, on the slot at base + n
VmGet(s, insts, base) ==
  LET n == get_int32_usize(insts, s.pc + 1)
  IN IF base + n >= Len(s.stack) THEN [s EXCEPT !.st = "panic"]
     ELSE VmPush(s, s.stack[base + n + 1], 5)

VmSet(s, insts, base) ==
  LET n == get_int32_usize(insts, s.pc + 1)
      s1 == [s EXCEPT !.stack = SubSeq(@, 1, Len(@) - 1)]
  IN IF s.stack = <<>> \/ base + n >= Len(s1.stack) THEN [s EXCEPT !.st = "panic"]
     ELSE [s1 EXCEPT !.stack[base + n + 1] = s.stack[Len(s.stack)], !.pc = @ + 5,
                     !.fuel = @ - 1]

\* the handler of JMP_IF_FALSE: only Bool(false) takes the jump
VmJmpIfFalse(s, insts) ==
  IF s.stack = <<>> THEN [s EXCEPT !.st = "panic"]
  ELSE [s EXCEPT !.stack = SubSeq(@, 1, Len(@) - 1),
                 !.pc = IF s.stack[Len(s.stack)] = Bool(0)
                        THEN @ + 5 + get_int32_i32(insts, s.pc + 1) ELSE @ + 5,
                 !.fuel = @ - 1]

\* the dispatch loop, run from s until the pc is stop
RECURSIVE do_run(_, _, _, _, _)
do_run(insts, bp, lp, stop, s) ==
  IF s.st # "run" \/ s.pc = stop THEN s
  ELSE IF s.fuel = 0 \/ ~InBuf(insts, s.pc, 1) THEN [s EXCEPT !.st = "cut"]
  ELSE LET op == Byte(insts, s.pc) IN
    do_run(insts, bp, lp, stop,
      CASE op = PUSH_INT8 -> VmPush(s, Number(get_int8(insts, s.pc + 1)), 2)
        [] op = PUSH_INT32 -> VmPush(s, Number(get_int32_i32(insts, s.pc + 1)), 5)
        [] op = PUSH_FALSE -> VmPush(s, Bool(0), 1)
        [] op = PUSH_TRUE -> VmPush(s, Bool(1), 1)
        [] op \in {ADD, SUB, MUL, DIV, REM, LT, GT, LE, GE, EQ, NE} -> binary(s, op)
        [] op = GET_LOCAL -> VmGet(s, insts, lp)
        [] op = SET_LOCAL -> VmSet(s, insts, lp)
        [] op = GET_ARG_LOCAL -> VmGet(s, insts, bp)
        [] op = SET_ARG_LOCAL -> VmSet(s, insts, bp)
        [] op = JMP -> [s EXCEPT !.pc = @ + 5 + get_int32_i32(insts, s.pc + 1), !.fuel = @ - 1]
        [] op = JMP_IF_FALSE -> VmJmpIfFalse(s, insts)
        [] OTHER -> [s EXCEPT !.st = "cut"])

(***************************************************************************)
(* The bytecode programs the model runs the JIT on.                        *)
(***************************************************************************)
\* the four little-endian bytes of a 32-bit immediate
I32(n) ==
  LET m == IF n >= 0 THEN n ELSE -n - 1
      b(k) == (m \div k) % 256
      q == <<b(1), b(256), b(65536), b(16777216)>>
  IN IF n >= 0 THEN q ELSE [i \in 1..4 |-> 255 - q[i]]

OpI32(op, n) == <<op>> \o I32(n)

Program(insts, const_table, objects, funcs, loops, bp, lp, nstack) ==
  [insts |-> insts, const_table |-> const_table, objects |-> objects, funcs |-> funcs,
   loops |-> loops, bp |-> bp, lp |-> lp, nstack |-> nstack]

\* pc 0: function f(x) { return x + 1 }
ProgAdd ==
  Program(
    OpI32(CREATE_CONTEXT, 0) \o OpI32(GET_ARG_LOCAL, 0) \o <<PUSH_INT8, 1>> \o <<ADD>>
      \o <<RETURN>> \o <<END>>,
    <<>>, EmptyMap, {0}, {}, 0, 1, 0)

\* pc 0: function g(x) { return x < 2 }
ProgLess ==
  Program(
    OpI32(CREATE_CONTEXT, 0) \o OpI32(GET_ARG_LOCAL, 0) \o <<PUSH_INT8, 2>> \o <<LT>>
      \o <<RETURN>> \o <<END>>,
    <<>>, EmptyMap, {0}, {}, 0, 1, 0)

\* pc 0: function q(x) { return x === 2 }
ProgStrict ==
  Program(
    OpI32(CREATE_CONTEXT, 0) \o OpI32(GET_ARG_LOCAL, 0) \o <<PUSH_INT8, 2>> \o <<SEQ>>
      \o <<RETURN>> \o <<END>>,
    <<>>, EmptyMap, {0}, {}, 0, 1, 0)

\* pc 0:  function f(x) { return x + 1 }
\* pc 15: function h(x) { return f(x) }
ProgCall ==
  Program(
    OpI32(CREATE_CONTEXT, 0) \o OpI32(GET_ARG_LOCAL, 0) \o <<PUSH_INT8, 1>> \o <<ADD>>
      \o <<RETURN>> \o <<END>>
      \o OpI32(CREATE_CONTEXT, 0) \o OpI32(GET_ARG_LOCAL, 0) \o OpI32(PUSH_CONST, 0)
      \o OpI32(CALL, 1) \o <<RETURN>> \o <<END>>,
    <<Val("Function", 0)>>, EmptyMap, {0, 15}, {}, 0, 1, 0)

\* pc 0:      function r(x) { return r(x) }
\* pc 22..60: while (i < 1) { i = r(i) }; i is local slot 0
ProgRec ==
  Program(
    OpI32(CREATE_CONTEXT, 0) \o OpI32(GET_ARG_LOCAL, 0) \o OpI32(PUSH_CONST, 0)
      \o OpI32(CALL, 1) \o <<RETURN>> \o <<END>>
      \o OpI32(GET_LOCAL, 0) \o <<PUSH_INT8, 1>> \o <<LT>> \o OpI32(JMP_IF_FALSE, 25)
      \o OpI32(GET_LOCAL, 0) \o OpI32(PUSH_CONST, 0) \o OpI32(CALL, 1) \o OpI32(SET_LOCAL, 0)
      \o OpI32(JMP, -38) \o <<END>>,
    <<Val("Function", 0)>>, EmptyMap, {0}, {<<22, 60>>}, 0, 0, 1)

\* pc 0: function k(x) { if (x < 1) return true; return x + "a" }
ProgMixed ==
  Program(
    OpI32(CREATE_CONTEXT, 0) \o OpI32(GET_ARG_LOCAL, 0) \o <<PUSH_INT8, 1>> \o <<LT>>
      \o OpI32(JMP_IF_FALSE, 2) \o <<PUSH_TRUE>> \o <<RETURN>>
      \o OpI32(GET_ARG_LOCAL, 0) \o OpI32(PUSH_CONST, 0) \o <<ADD>> \o <<RETURN>> \o <<END>>,
    <<Val("String", 1)>>, EmptyMap, {0}, {}, 0, 1, 0)

\* pc 0: function e(x) { }
ProgVoid == Program(OpI32(CREATE_CONTEXT, 0) \o <<END>>, <<>>, EmptyMap, {0}, {}, 0, 1, 0)

\* pc 0..47: while (i < 2) { sum = sum + i; i = i + 1 }
\*           sum is argument slot 0, i is local slot 0
ProgLoop ==
  Program(
    OpI32(GET_LOCAL, 0) \o <<PUSH_INT8, 2>> \o <<LT>> \o OpI32(JMP_IF_FALSE, 34)
      \o OpI32(GET_ARG_LOCAL, 0) \o OpI32(GET_LOCAL, 0) \o <<ADD>> \o OpI32(SET_ARG_LOCAL, 0)
      \o OpI32(GET_LOCAL, 0) \o <<PUSH_INT8, 1>> \o <<ADD>> \o OpI32(SET_LOCAL, 0)
      \o OpI32(JMP, -47) \o <<END>>,
    <<>>, EmptyMap, {}, {<<0, 47>>}, 0, 1, 3)

\* pc 0..24:  while (i < 1) { return i }       (RETURN inside a loop region)
\* pc 25..43: while (i === 1) { }              (SEQ)
ProgBadLoops ==
  Program(
    OpI32(GET_LOCAL, 0) \o <<PUSH_INT8, 1>> \o <<LT>> \o OpI32(JMP_IF_FALSE, 11)
      \o OpI32(GET_LOCAL, 0) \o <<RETURN>> \o OpI32(JMP, -24) \o <<END>>
      \o OpI32(GET_LOCAL, 0) \o <<PUSH_INT8, 1>> \o <<SEQ>> \o OpI32(JMP_IF_FALSE, 5)
      \o OpI32(JMP, -18) \o <<END>>,
    <<>>, EmptyMap, {}, {<<0, 24>>, <<25, 43>>}, 0, 1, 2)

\* pc 0..31: while (i < 2) { i = i + 1 }, the region handed to the loop JIT
\*           ending at the back jump (pc 26); i is local slot 0
ProgOpen ==
  Program(
    OpI32(GET_LOCAL, 0) \o <<PUSH_INT8, 2>> \o <<LT>> \o OpI32(JMP_IF_FALSE, 18)
      \o OpI32(GET_LOCAL, 0) \o <<PUSH_INT8, 1>> \o <<ADD>> \o OpI32(SET_LOCAL, 0)
      \o OpI32(JMP, -31) \o <<END>>,
    <<>>, EmptyMap, {}, {<<0, 26>>}, 0, 0, 1)

\* pc 0..34: while (i < j) { i = i + 1 }; i is local slot 0, j local slot 1
ProgSwap ==
  Program(
    OpI32(GET_LOCAL, 0) \o OpI32(GET_LOCAL, 1) \o <<LT>> \o OpI32(JMP_IF_FALSE, 18)
      \o OpI32(GET_LOCAL, 0) \o <<PUSH_INT8, 1>> \o <<ADD>> \o OpI32(SET_LOCAL, 0)
      \o OpI32(JMP, -34) \o <<END>>,
    <<>>, EmptyMap, {}, {<<0, 34>>}, 0, 0, 2)

\* pc 0: function t(x) { g = x; return 1 }
ProgGlobal ==
  Program(
    OpI32(CREATE_CONTEXT, 0) \o OpI32(GET_ARG_LOCAL, 0) \o OpI32(SET_GLOBAL, 0)
      \o <<PUSH_INT8, 1>> \o <<RETURN>> \o <<END>>,
    <<Val("String", 1)>>, EmptyMap, {0}, {}, 0, 1, 0)

\* pc 0: function u(x) { return x; return 1 }
ProgDead ==
  Program(
    OpI32(CREATE_CONTEXT, 0) \o OpI32(GET_ARG_LOCAL, 0) \o <<RETURN>>
      \o <<PUSH_INT8, 1>> \o <<RETURN>> \o <<END>>,
    <<>>, EmptyMap, {0}, {}, 0, 1, 0)

Programs ==
  {ProgAdd, ProgLess, ProgStrict, ProgCall, ProgRec, ProgMixed, ProgVoid, ProgLoop,
   ProgBadLoops, ProgOpen, ProgSwap, ProgGlobal, ProgDead}


(***************************************************************************)
(* The state of the JIT and of the interpreter around it.                  *)
(***************************************************************************)
VARIABLES
  prog,           \* the bytecode, its constants and its frame layout (fixed)
  count,          \* TracingJit.count: pc -> invocations
  func_info,      \* TracingJit.func_info: pc -> FuncInfo
  loop_info,      \* TracingJit.loop_info: pc -> LoopInfo
  return_ty_map,  \* TracingJit.return_ty_map: pc -> ValueType
  module,         \* the functions of the LLVM module
  stack,          \* vm_state.stack
  vm_pc,          \* vm_state.pc
  aborted,        \* the process died (verifier abort, panic)
  observed,       \* history: pc -> the tag of the last Number or Bool handed to
                  \* register_return_type for pc
  refused,        \* history: the loop headers at which run_loop_llvm_func has
                  \* returned None for a compiled loop
  last            \* the last call into the JIT and what it returned

vars ==
  <<prog, count, func_info, loop_info, return_ty_map, module, stack, vm_pc, aborted, observed,
    refused, last>>

\* Option<fn> / Option<LLVMValueRef>: 0 is None, a function of the module
\* otherwise
NoFunc == 0

\* FuncInfo::new()
FuncInfo_new == [func_addr |-> NoFunc, llvm_func |-> NoFunc, cannot_jit |-> FALSE]

\* LoopInfo::new()
LoopInfo_new ==
  [func_addr |-> NoFunc, llvm_func |-> NoFunc, arg_vars_id |-> <<>>, local_vars_id |-> <<>>,
   cannot_jit |-> FALSE]

\* an Option result: None, Some(v)
None == [some |-> FALSE, v |-> 0]
Some(v) == [some |-> TRUE, v |-> v]

\* *self.count.entry(pc).or_insert(0)
CountOf(cnt, pc) == IF Has(cnt, pc) THEN cnt[pc] ELSE 0

\* a function counted hot one query late
func_is_called_enough_times_late(cnt, pc) == CountOf(cnt, pc) > FUNC_THRESHOLD

\* func_is_called_enough_times
func_is_called_enough_times(cnt, pc) == CountOf(cnt, pc) >= FUNC_THRESHOLD

\* a loop counted hot at the threshold of functions
loop_is_called_enough_times_early(cnt, pc) == CountOf(cnt, pc) >= FUNC_THRESHOLD

\* loop_is_called_enough_times
loop_is_called_enough_times(cnt, pc) == CountOf(cnt, pc) >= LOOP_THRESHOLD

\* inc_count
inc_count(cnt, pc) == MapPut(cnt, pc, CountOf(cnt, pc) + 1)

\* the record replaced by a new one at every query
FuncEntry_insert(finfo, pc) == MapPut(finfo, pc, FuncInfo_new)

\* self.func_info.entry(pc).or_insert(FuncInfo::new())
FuncEntry(finfo, pc) == IF Has(finfo, pc) THEN finfo ELSE MapPut(finfo, pc, FuncInfo_new)

\* the records of the other loops dropped
LoopEntry_alone(linfo, pc) == MapPut(EmptyMap, pc, LoopInfo_new)

\* self.loop_info.entry(bgn).or_insert(LoopInfo::new())
LoopEntry(linfo, pc) == IF Has(linfo, pc) THEN linfo ELSE MapPut(linfo, pc, LoopInfo_new)

\* format!("func.{}", random::<u32>()): the suffix, taken fresh for the module
FreshSuffix(m) == Len(m) + 1

\* LLVMGetFunctionAddress(ee, name): the function of the module with that name
FunctionAddress(m, suffix) ==
  CHOOSE i \in DOMAIN m : m[i].name = "func" /\ m[i].suffix = suffix

\* only the first observation kept
register_return_type_first(rtm, pc, val) ==
  IF val.tag \in {"Number", "Bool"} /\ ~Has(rtm, pc) THEN MapPut(rtm, pc, val.tag) ELSE rtm

\* register_return_type: a Number or a Bool is recorded, anything else ignored
register_return_type(rtm, pc, val) ==
  IF val.tag \in {"Number", "Bool"} THEN MapPut(rtm, pc, val.tag) ELSE rtm

\* what a query's code generation came to: "err" (it failed, whether or not
\* the verifier then stopped the process), "abort" (the process died on code
\* whose generation had not failed) or "ok"
GenOutcome(r) == IF r.failed THEN "err" ELSE IF r.st = "abort" THEN "abort" ELSE "ok"

\* the record of the last operation: gen is "none" when the query called no
\* code generator, ran tells whether native code was run, args are the
\* arguments handed to run_llvm_func
Called(op, pc, argc, end, val, ret, gen, ran) ==
  [op |-> op, pc |-> pc, argc |-> argc, end |-> end, val |-> val, ret |-> ret,
   gen |-> gen, ran |-> ran, args |-> <<>>]

\* the values the interpreter writes into a stack slot
StackValues == {Number(n) : n \in 0..MaxNum} \cup {Undefined}

\* every Number of the stack is within the model's range
InRange(stk) == \A i \in DOMAIN stk : stk[i].tag = "Number" => stk[i].v \in 0..MaxVal

\* the values a function returns to the interpreter
ReturnValues == {Number(0), Bool(1), Val("String", 1), Undefined}

Init ==
  /\ prog \in Programs
  /\ count = EmptyMap
  /\ func_info = EmptyMap
  /\ loop_info = EmptyMap
  /\ return_ty_map = EmptyMap
  /\ module = InitModule
  /\ stack = [i \in 1..prog.nstack |-> Number(0)]
  /\ vm_pc = 0
  /\ aborted = FALSE
  /\ observed = EmptyMap
  /\ refused = {}
  /\ last = Called("init", 0, 0, 0, "", None, "none", FALSE)

\* the sticky flag ignored
Blocked_never(info) == FALSE

\* a loop is blocked as well once its shim has refused to run it
Blocked_after_refusal(info) == info.cannot_jit \/ vm_pc \in refused

\* if info.cannot_jit { return None }
Blocked(info) == info.cannot_jit

\* the stored entry ignored
Compiled_never(info) == FALSE

\* if let Some(func_addr) = info.func_addr
Compiled(info) == info.func_addr # NoFunc

\* can_jit 305-379: the outcome r of gen_code_for_func for the record info
CanJitCompiled(pc, argc, finfo, suffix, r) ==
  IF r.st = "err" THEN
    /\ func_info' = [finfo EXCEPT ![pc].cannot_jit = TRUE]
    /\ module' = r.module
    /\ last' = Called("can_jit", pc, argc, 0, "", None, GenOutcome(r), FALSE)
    /\ UNCHANGED aborted
  ELSE IF r.st = "abort" THEN
    /\ func_info' = finfo
    /\ module' = r.module
    /\ aborted' = TRUE
    /\ last' = Called("can_jit", pc, argc, 0, "", None, GenOutcome(r), FALSE)
  ELSE
    /\ func_info' = [finfo EXCEPT ![pc].func_addr = FunctionAddress(r.module, suffix),
                                  ![pc].llvm_func = r.func]
    /\ module' = r.module
    /\ last' = Called("can_jit", pc, argc, 0, "",
                      Some(FunctionAddress(r.module, suffix)), GenOutcome(r), FALSE)
    /\ UNCHANGED aborted

\* can_jit 286-311: the record of pc is looked up (and created); a blocked or
\* compiled function returns at once, any other is compiled
CanJitHot(pc, argc, finfo, suffix) ==
  IF Blocked(finfo[pc]) THEN
    /\ func_info' = finfo
    /\ last' = Called("can_jit", pc, argc, 0, "", None, "none", FALSE)
    /\ UNCHANGED <<module, aborted>>
  ELSE IF Compiled(finfo[pc]) THEN
    /\ func_info' = finfo
    /\ last' = Called("can_jit", pc, argc, 0, "", Some(finfo[pc].func_addr), "none", FALSE)
    /\ UNCHANGED <<module, aborted>>
  ELSE
    CanJitCompiled(pc, argc, finfo, suffix,
                   gen_code_for_func(suffix, prog, module, finfo, return_ty_map, pc, argc))

\* can_jit(insts, const_table, pc, argc)
CanJit(pc, argc) ==
  /\ ~aborted
  /\ UNCHANGED <<prog, loop_info, return_ty_map, stack, vm_pc, observed, refused>>
  /\ IF ~func_is_called_enough_times(count, pc) THEN
       /\ count' = inc_count(count, pc)
       /\ last' = Called("can_jit", pc, argc, 0, "", None, "none", FALSE)
       /\ UNCHANGED <<func_info, module, aborted>>
     ELSE
       /\ UNCHANGED count
       /\ CanJitHot(pc, argc, FuncEntry(func_info, pc), FreshSuffix(module))

\* can_loop_jit 504-511 / 595: the compiled loop has been run through
\* run_loop_llvm_func with outcome res; gen tells whether this query compiled it
CanLoopJitRan(bgn, end, res, gen) ==
  /\ res.st # "cut"
  /\ InRange(res.stack)
  /\ stack' = res.stack
  /\ refused' = IF res.st = "none" THEN refused \cup {bgn} ELSE refused
  /\ last' = Called("can_loop_jit", bgn, 0, end, "",
                    IF res.st = "some" THEN Some(res.pc) ELSE None, gen, res.st = "some")

\* can_loop_jit 518-595: the outcome r of gen_code_for_loop
CanLoopJitCompiled(bgn, end, arg_vars, local_vars, linfo, suffix, r) ==
  IF r.st = "err" THEN
    /\ loop_info' = [linfo EXCEPT ![bgn].cannot_jit = TRUE]
    /\ module' = r.module
    /\ last' = Called("can_loop_jit", bgn, 0, end, "", None, GenOutcome(r), FALSE)
    /\ UNCHANGED <<stack, aborted, refused>>
  ELSE IF r.st = "abort" THEN
    /\ loop_info' = linfo
    /\ module' = r.module
    /\ aborted' = TRUE
    /\ last' = Called("can_loop_jit", bgn, 0, end, "", None, GenOutcome(r), FALSE)
    /\ UNCHANGED <<stack, refused>>
  ELSE
    /\ loop_info' = [linfo EXCEPT ![bgn].func_addr = FunctionAddress(r.module, suffix),
                                  ![bgn].llvm_func = r.func,
                                  ![bgn].arg_vars_id = arg_vars,
                                  ![bgn].local_vars_id = local_vars]
    /\ module' = r.module
    /\ CanLoopJitRan(bgn, end,
                     run_loop_llvm_func(r.module[FunctionAddress(r.module, suffix)], stack,
                                        prog.bp, prog.lp, arg_vars, local_vars),
                     GenOutcome(r))
    /\ UNCHANGED aborted

\* can_loop_jit 493-522: the record of bgn is looked up (and created); a
\* blocked loop returns None, a compiled one is run, any other is compiled
CanLoopJitHot(bgn, end, arg_vars, local_vars, order, linfo, suffix) ==
  IF Blocked(linfo[bgn]) THEN
    /\ loop_info' = linfo
    /\ last' = Called("can_loop_jit", bgn, 0, end, "", None, "none", FALSE)
    /\ UNCHANGED <<module, stack, aborted, refused>>
  ELSE IF Compiled(linfo[bgn]) THEN
    /\ loop_info' = linfo
    /\ CanLoopJitRan(bgn, end,
                     run_loop_llvm_func(module[linfo[bgn].func_addr], stack, prog.bp, prog.lp,
                                        linfo[bgn].arg_vars_id, linfo[bgn].local_vars_id),
                     "none")
    /\ UNCHANGED <<module, aborted>>
  ELSE
    CanLoopJitCompiled(bgn, end, arg_vars, local_vars, linfo, suffix,
                       gen_code_for_loop(suffix, prog, module, func_info, bgn, end,
                                         arg_vars, local_vars, order))

\* can_loop_jit(insts, const_table, vm_state, end), called with vm_state.pc at
\* the loop header; arg_vars, local_vars and order are the iteration orders of
\* the hash collections of this compilation
CanLoopJit(end, arg_vars, local_vars, order) ==
  /\ ~aborted
  /\ UNCHANGED <<prog, func_info, return_ty_map, vm_pc, observed>>
  /\ IF ~loop_is_called_enough_times(count, vm_pc) THEN
       /\ count' = inc_count(count, vm_pc)
       /\ last' = Called("can_loop_jit", vm_pc, 0, end, "", None, "none", FALSE)
       /\ UNCHANGED <<loop_info, module, stack, aborted, refused>>
     ELSE
       /\ UNCHANGED count
       /\ CanLoopJitHot(vm_pc, end, arg_vars, local_vars, order,
                        LoopEntry(loop_info, vm_pc), FreshSuffix(module))

\* register_return_type(pc, val)
RegisterReturnType(pc, val) ==
  /\ ~aborted
  /\ return_ty_map' = register_return_type(return_ty_map, pc, val)
  /\ last' = Called("register_return_type", pc, 0, 0, val.tag, None, "none", FALSE)
  /\ observed' = IF val.tag = "Number" \/ val.tag = "Bool"
                  THEN MapPut(observed, pc, val.tag) ELSE observed
  /\ UNCHANGED <<prog, count, func_info, loop_info, module, stack, vm_pc, aborted, refused>>

\* run_llvm_func 1387-1432 with outcome r: a panic ends the process; a call
\* under a signature the function does not have returns any value
RunLlvmFuncDone(args, r) ==
  /\ r.st # "cut"
  /\ aborted' = (r.st = "panic")
  /\ \E v \in IF r.st = "any" THEN 0..1 ELSE {r.v} :
       /\ v \in 0..MaxVal
       /\ last' = [Called("run_llvm_func", last.pc, Len(args), 0, r.tag,
                          IF r.st \in {"value", "any"} THEN Some(v) ELSE None, "none",
                          r.st \in {"value", "any"})
                   EXCEPT !.args = args]

\* the interpreter calls the pointer a can_jit query has just returned, with
\* the arguments of the call
RunLlvmFunc(args) ==
  /\ ~aborted
  /\ last.op = "can_jit"
  /\ last.ret.some
  /\ Len(args) = last.argc
  /\ RunLlvmFuncDone(args, run_llvm_func(module[last.ret.v],
                                         FuncRetTy(return_ty_map, last.pc), args))
  /\ UNCHANGED <<prog, count, func_info, loop_info, return_ty_map, module, stack, vm_pc,
                 observed, refused>>

\* the argument vectors of a call: one Number in every place, and the same
\* with one place holding no Number
RunArgs ==
  UNION {{[i \in 1..n |-> IF i = j THEN Undefined ELSE Number(v)] : j \in 0..n, v \in 0..MaxNum}
         : n \in 0..MaxArgc}

\* the interpreter stores a value into a stack slot
InterpStore(i, v) ==
  /\ ~aborted
  /\ stack' = [stack EXCEPT ![i] = v]
  /\ last' = Called("store", 0, 0, 0, v.tag, None, "none", FALSE)
  /\ UNCHANGED <<prog, count, func_info, loop_info, return_ty_map, module, vm_pc, aborted,
                 observed, refused>>

\* the interpreter arrives at a loop header
InterpGoto(pc) ==
  /\ ~aborted
  /\ vm_pc # pc
  /\ vm_pc' = pc
  /\ last' = Called("goto", pc, 0, 0, "", None, "none", FALSE)
  /\ UNCHANGED <<prog, count, func_info, loop_info, return_ty_map, module, stack, aborted,
                 observed, refused>>

\* the loop regions of the program that start at pc
LoopEnds(pc) == {l[2] : l \in {x \in prog.loops : x[1] = pc}}

Next ==
  \/ \E pc \in prog.funcs, argc \in 0..MaxArgc : CanJit(pc, argc)
  \/ \E end \in LoopEnds(vm_pc) :
       LET v == collect_arg_and_local_vars(prog.insts, vm_pc, end) IN
         \E arg_vars \in Orders(v.args), local_vars \in Orders(v.locals),
            order \in Orders(LabelKeys(prog.insts, vm_pc, end, FALSE)) :
           CanLoopJit(end, arg_vars, local_vars, order)
  \/ \E pc \in prog.funcs, val \in ReturnValues : RegisterReturnType(pc, val)
  \/ \E args \in RunArgs : RunLlvmFunc(args)
  \/ \E i \in 1..prog.nstack, v \in StackValues : InterpStore(i, v)
  \/ \E l \in prog.loops : InterpGoto(l[1])

Spec == Init /\ [][Next]_vars

(***************************************************************************)
(* The properties checked.                                                 *)
(***************************************************************************)
\* C1: while count[pc] < 5 a can_jit query adds exactly one to count[pc],
\* returns None, calls no code generator and creates no function record (and
\* adds nothing to the module); with count[pc] >= 5 the query leaves the
\* counters alone and, unless the record is compiled or blocked, generates
\* code.  So no query before the sixth compiles.
C1_FunctionThreshold ==
  [][\A pc \in prog.funcs :
       (last'.op = "can_jit" /\ last'.pc = pc) =>
         IF CountOf(count, pc) < 5
         THEN /\ CountOf(count', pc) = CountOf(count, pc) + 1
              /\ \A q \in DOMAIN count : q # pc => count'[q] = count[q]
              /\ last'.ret = None
              /\ last'.gen = "none"
              /\ func_info' = func_info
              /\ module' = module
         ELSE /\ count' = count
              /\ (\/ ~Has(func_info, pc)
                  \/ ~func_info[pc].cannot_jit /\ func_info[pc].func_addr = NoFunc)
                 => last'.gen # "none"]_vars

\* C1 happens: a query made with count[pc] = 5 has compiled the function
C1_SixthQueryCompiles ==
  /\ last.op = "can_jit"
  /\ last.gen = "ok"
  /\ last.ret.some
  /\ CountOf(count, last.pc) = 5

\* C2: while count[pc] < 7 a can_loop_jit query adds one to count[pc] and
\* returns None without generating code or changing the interpreter's stack;
\* with count[pc] >= 7 the counters stay, a loop neither compiled nor blocked
\* is handed to the code generator, and when that succeeds the same query
\* runs the loop through the shim: with Numbers in all marshalled slots the
\* native code runs and the query returns Some(resume pc), the end of the
\* region or a jump target of it; otherwise the shim's None, the stack kept.
C2_LoopThreshold ==
  [][\A l \in prog.loops :
       (last'.op = "can_loop_jit" /\ last'.pc = l[1] /\ last'.end = l[2]) =>
         IF CountOf(count, l[1]) < 7
         THEN /\ CountOf(count', l[1]) = CountOf(count, l[1]) + 1
              /\ last'.ret = None
              /\ last'.gen = "none"
              /\ ~last'.ran
              /\ stack' = stack
              /\ loop_info' = loop_info
              /\ module' = module
         ELSE /\ count' = count
              /\ (\/ ~Has(loop_info, l[1])
                  \/ ~loop_info[l[1]].cannot_jit /\ loop_info[l[1]].func_addr = NoFunc)
                 => last'.gen # "none"
              /\ last'.gen = "ok" =>
                   /\ Has(loop_info', l[1])
                   /\ loop_info'[l[1]].func_addr # NoFunc
                   /\ IF /\ \A i \in DOMAIN loop_info'[l[1]].arg_vars_id :
                              Slot(stack, prog.bp + loop_info'[l[1]].arg_vars_id[i]).tag
                                = "Number"
                         /\ \A i \in DOMAIN loop_info'[l[1]].local_vars_id :
                              Slot(stack, prog.lp + loop_info'[l[1]].local_vars_id[i]).tag
                                = "Number"
                      THEN /\ last'.ran
                           /\ last'.ret.some
                           /\ last'.ret.v \in LabelKeys(prog.insts, l[1], l[2], FALSE) \cup {l[2]}
                      ELSE /\ ~last'.ran
                           /\ last'.ret = None
                           /\ stack' = stack]_vars

\* C2 happens: the query made with count[pc] = 7 compiled the loop, ran it
\* and returned the end of the region as the resume pc
C2_EighthQueryRuns ==
  /\ last.op = "can_loop_jit"
  /\ last.gen = "ok"
  /\ last.ran
  /\ last.ret = Some(last.end)
  /\ CountOf(count, last.pc) = 7

\* C3: once the function record (the loop record) of a pc is blocked, a
\* can_jit (can_loop_jit) query at that pc calls no code generator, adds
\* nothing to the module and returns None, whatever its arguments.
C3_BlockedNeverCompiles ==
  [][/\ \A pc \in prog.funcs :
          (/\ Has(func_info, pc) /\ func_info[pc].cannot_jit
           /\ last'.op = "can_jit" /\ last'.pc = pc)
          => (last'.gen = "none" /\ last'.ret = None /\ module' = module)
     /\ \A l \in prog.loops :
          (/\ Has(loop_info, l[1]) /\ loop_info[l[1]].cannot_jit
           /\ last'.op = "can_loop_jit" /\ last'.pc = l[1])
          => (last'.gen = "none" /\ last'.ret = None /\ ~last'.ran /\ module' = module)]_vars

\* C3 happens: a function blocked by a query with four arguments has been
\* queried again with one argument, and nothing was generated
C3_BlockedQueriedAgain ==
  /\ last.op = "can_jit"
  /\ last.argc = 1
  /\ last.gen = "none"
  /\ last.ret = None
  /\ Has(func_info, last.pc)
  /\ func_info[last.pc].cannot_jit
  /\ module = InitModule

\* C4: in every record cannot_jit never goes from true to false, a stored
\* func_addr is never cleared or replaced, and no record is both compiled and
\* blocked.
C4_TerminalStates ==
  [][/\ \A pc \in DOMAIN func_info :
          /\ Has(func_info', pc)
          /\ func_info[pc].cannot_jit => func_info'[pc].cannot_jit
          /\ func_info[pc].func_addr # NoFunc
               => func_info'[pc].func_addr = func_info[pc].func_addr
     /\ \A pc \in DOMAIN func_info' :
          ~(func_info'[pc].cannot_jit /\ func_info'[pc].func_addr # NoFunc)
     /\ \A pc \in DOMAIN loop_info :
          /\ Has(loop_info', pc)
          /\ loop_info[pc].cannot_jit => loop_info'[pc].cannot_jit
          /\ loop_info[pc].func_addr # NoFunc
               => loop_info'[pc].func_addr = loop_info[pc].func_addr
     /\ \A pc \in DOMAIN loop_info' :
          ~(loop_info'[pc].cannot_jit /\ loop_info'[pc].func_addr # NoFunc)]_vars

\* C4 happens: one record is compiled, another blocked, and the compiled one
\* has been queried again
C4_CompiledAndBlockedRecords ==
  /\ last.op = "can_jit"
  /\ last.gen = "none"
  /\ last.ret.some
  /\ \E p \in DOMAIN func_info, q \in DOMAIN func_info :
       /\ p = last.pc
       /\ func_info[p].func_addr # NoFunc
       /\ func_info[q].cannot_jit

\* C5 as the code has it: a query whose code generation failed returns None
\* and stores no compiled entry, and either the record is blocked or the
\* verifier has stopped the process.
C5_FailureBlocksOrAborts ==
  [][(last'.op \in {"can_jit", "can_loop_jit"} /\ last'.gen = "err") =>
       /\ last'.ret = None
       /\ IF last'.op = "can_jit"
          THEN /\ func_info'[last'.pc].func_addr = NoFunc
               /\ aborted' \/ func_info'[last'.pc].cannot_jit
          ELSE /\ loop_info'[last'.pc].func_addr = NoFunc
               /\ aborted' \/ loop_info'[last'.pc].cannot_jit]_vars

\* C5: whenever the code generation of a query fails, the query returns None,
\* the record's cannot_jit is set, its compiled entry stays absent and the
\* process is not aborted.
C5_FailureReturnsToInterpreter ==
  [][(last'.op \in {"can_jit", "can_loop_jit"} /\ last'.gen = "err") =>
       /\ last'.ret = None
       /\ ~aborted'
       /\ IF last'.op = "can_jit"
          THEN func_info'[last'.pc].cannot_jit /\ func_info'[last'.pc].func_addr = NoFunc
          ELSE loop_info'[last'.pc].cannot_jit /\ loop_info'[last'.pc].func_addr = NoFunc]_vars

\* C5 happens: the code generation of a function failed and the process is
\* dead, the record not blocked
C5_FailureAborted ==
  /\ last.op = "can_jit"
  /\ last.gen = "err"
  /\ aborted
  /\ ~func_info[last.pc].cannot_jit

\* C6: the pointer a successful can_jit query returns is the one stored in
\* the record; from then on the stored pointer stays, and every can_jit query
\* at that pc returns it, calls no code generator and adds no function to the
\* module, whatever argc it is given and whatever register_return_type did.
C6_CompiledIsStable ==
  [][\A pc \in prog.funcs :
       /\ (last'.op = "can_jit" /\ last'.pc = pc /\ last'.ret.some)
          => (Has(func_info', pc) /\ func_info'[pc].func_addr = last'.ret.v)
       /\ (Has(func_info, pc) /\ func_info[pc].func_addr # NoFunc)
          => /\ func_info'[pc].func_addr = func_info[pc].func_addr
             /\ (last'.op = "can_jit" /\ last'.pc = pc)
                => /\ last'.ret = Some(func_info[pc].func_addr)
                   /\ last'.gen = "none"
                   /\ module' = module]_vars

\* C6 happens: a function compiled as returning a double, for which a Bool
\* was registered afterwards, has been queried with four arguments and the
\* stored pointer returned
C6_SamePointerAgain ==
  /\ last.op = "can_jit"
  /\ last.argc = 4
  /\ last.gen = "none"
  /\ last.ret.some
  /\ module[last.ret.v].ret_ty = "double"
  /\ Has(return_ty_map, last.pc)
  /\ return_ty_map[last.pc] = "Bool"

\* C7: a function record exists only for a pc with count[pc] >= 5, a loop
\* record only with count[pc] >= 7; a query made with the counter at the
\* threshold leaves the record present, a record appears only in such a
\* query, and no step removes a record.
C7_Records ==
  [][/\ \A pc \in DOMAIN func_info' : CountOf(count', pc) >= 5
     /\ \A pc \in DOMAIN loop_info' : CountOf(count', pc) >= 7
     /\ \A pc \in DOMAIN func_info : Has(func_info', pc)
     /\ \A pc \in DOMAIN loop_info : Has(loop_info', pc)
     /\ (last'.op = "can_jit" /\ CountOf(count, last'.pc) >= 5) => Has(func_info', last'.pc)
     /\ (last'.op = "can_loop_jit" /\ CountOf(count, last'.pc) >= 7)
          => Has(loop_info', last'.pc)
     /\ \A pc \in DOMAIN func_info' \ DOMAIN func_info :
          last'.op = "can_jit" /\ last'.pc = pc /\ CountOf(count, pc) >= 5
     /\ \A pc \in DOMAIN loop_info' \ DOMAIN loop_info :
          last'.op = "can_loop_jit" /\ last'.pc = pc /\ CountOf(count, pc) >= 7]_vars

\* C7 happens: the program has two loops and both have their record
C7_TwoLoopRecords ==
  /\ Cardinality(prog.loops) = 2
  /\ \A l \in prog.loops : Has(loop_info, l[1]) /\ CountOf(count, l[1]) = 7

\* C8: a can_jit query that reaches the code generator with argc > 3 returns
\* None, leaves the module as it was (no function, no instruction added) and
\* blocks the record, the process alive; with argc in 0..3 the generator
\* always gets past the arity check and adds a function of argc parameters.
C8_ArityCap ==
  [][\A pc \in prog.funcs :
       (last'.op = "can_jit" /\ last'.pc = pc /\ last'.gen # "none") =>
         IF last'.argc > 3
         THEN /\ last'.ret = None
              /\ last'.gen = "err"
              /\ module' = module
              /\ func_info'[pc].cannot_jit
              /\ func_info'[pc].func_addr = NoFunc
              /\ ~aborted'
         ELSE /\ Len(module') = Len(module) + 1
              /\ Len(module'[Len(module')].params) = last'.argc]_vars

\* C8 happens: a hot function queried with four arguments has been rejected
C8_FourArgumentsRejected ==
  /\ last.op = "can_jit"
  /\ last.argc = 4
  /\ last.gen = "err"
  /\ func_info[last.pc].cannot_jit
  /\ CountOf(count, last.pc) = 5

\* C9: the function a can_jit query compiles is declared with the type of
\* the last Number or Bool that register_return_type was given for its pc
\* before the query (double for Number, i1 for Bool), and as returning a
\* double when none was given.
C9_DeclaredReturnType ==
  [][\A pc \in prog.funcs :
       (last'.op = "can_jit" /\ last'.pc = pc /\ last'.gen = "ok" /\ last'.ret.some) =>
         module'[last'.ret.v].ret_ty =
           (IF Has(observed, pc) /\ observed[pc] = "Bool" THEN "i1" ELSE "double")]_vars

\* C9 happens: a function has been compiled as returning an i1
C9_CompiledAsBool ==
  /\ last.op = "can_jit"
  /\ last.gen = "ok"
  /\ last.ret.some
  /\ module[last.ret.v].ret_ty = "i1"
  /\ observed[last.pc] = "Bool"

\* C10: when a slot named by the record's arg_vars_id (at bp + id) or
\* local_vars_id (at lp + id) holds something else than a Number, the shim a
\* can_loop_jit query calls returns None, no native code runs, and the stack
\* and vm_state.pc are as before.
C10_ShimRefusesNonNumbers ==
  [][\A l \in prog.loops :
       (/\ last'.op = "can_loop_jit" /\ last'.pc = l[1]
        /\ Has(loop_info', l[1])
        /\ loop_info'[l[1]].func_addr # NoFunc
        /\ \/ \E i \in DOMAIN loop_info'[l[1]].arg_vars_id :
                Slot(stack, prog.bp + loop_info'[l[1]].arg_vars_id[i]).tag # "Number"
           \/ \E i \in DOMAIN loop_info'[l[1]].local_vars_id :
                Slot(stack, prog.lp + loop_info'[l[1]].local_vars_id[i]).tag # "Number")
       => /\ last'.ret = None
          /\ ~last'.ran
          /\ stack' = stack
          /\ vm_pc' = vm_pc]_vars

\* C10 happens: a compiled loop has been queried with a slot that holds no
\* Number, and the shim refused
C10_ShimRefused ==
  /\ last.op = "can_loop_jit"
  /\ last.gen = "none"
  /\ ~last.ran
  /\ last.ret = None
  /\ Has(loop_info, last.pc)
  /\ loop_info[last.pc].func_addr # NoFunc
  /\ \E i \in DOMAIN loop_info[last.pc].local_vars_id :
       Slot(stack, prog.lp + loop_info[last.pc].local_vars_id[i]).tag # "Number"

\* the stack positions a compiled loop names: bp + a for the scanned argument
\* slots a, lp + l for the scanned local slots l
NamedPositions(bgn, end) ==
  LET v == collect_arg_and_local_vars(prog.insts, bgn, end)
  IN {prog.bp + a : a \in v.args} \cup {prog.lp + l : l \in v.locals}

\* C11: one run of a compiled loop through the shim leaves the length of the
\* interpreter stack and every position other than bp + a (a a scanned
\* argument slot) and lp + l (l a scanned local slot) as they were, and reads
\* no other position: with any other position holding another value, the
\* same run returns the same resume PC and writes the same values.
C11_ShimFrame ==
  [][(last'.op = "can_loop_jit" /\ last'.ran)
       => /\ Len(stack') = Len(stack)
          /\ \A i \in 0..(Len(stack) - 1) :
               i \notin NamedPositions(last'.pc, last'.end) =>
                 /\ Slot(stack', i) = Slot(stack, i)
                 /\ \A v \in StackValues \cup {Bool(1)} :
                      LET info == loop_info'[last'.pc]
                          r == run_loop_llvm_func(module'[info.func_addr],
                                                  [stack EXCEPT ![i + 1] = v],
                                                  prog.bp, prog.lp,
                                                  info.arg_vars_id, info.local_vars_id)
                      IN /\ r.st = "some"
                         /\ Some(r.pc) = last'.ret
                         /\ r.stack = [stack' EXCEPT ![i + 1] = v]]_vars

\* C11 happens: a compiled loop has run and changed its two named slots
\* while the slot it does not name held a value of its own
C11_FrameKept ==
  /\ prog = ProgLoop
  /\ last.op = "can_loop_jit"
  /\ last.ran
  /\ stack = <<Number(1), Number(2), Number(1)>>

\* the interpreter run from the loop header bgn until it first reaches pc p
Interpreted(bgn, p) ==
  do_run(prog.insts, prog.bp, prog.lp, p,
         [pc |-> bgn, stack |-> stack, fuel |-> MaxFuel, st |-> "run"])

\* C12: a compiled loop that returns resume PC p leaves the stack as the
\* interpreter would have left it on reaching p from the loop header.
C12_LoopRefinesInterpreter ==
  [][(last'.op = "can_loop_jit" /\ last'.ran)
       => \E p \in 0..Len(prog.insts) :
            /\ last'.ret = Some(p)
            /\ Interpreted(last'.pc, p).st = "run"
            /\ Interpreted(last'.pc, p).pc = p
            /\ Interpreted(last'.pc, p).stack = stack']_vars

\* what the code does: a loop whose last block emission closed itself (every
\* run of ProgLoop) is as interpreted; the region of ProgOpen, whose last
\* block is open when emission ends, runs its body at most once and returns
\* the pc of its one unpositioned jump target, 31
C12_OpenRegionLeavesEarly ==
  [][(last'.op = "can_loop_jit" /\ last'.ran)
       => IF prog = ProgOpen
          THEN /\ last'.ret = Some(31)
               /\ stack' = <<Number(IF stack[1].v < 2 THEN stack[1].v + 1 ELSE stack[1].v)>>
          ELSE /\ last'.ret = Some(last'.end)
               /\ Interpreted(last'.pc, last'.end).st = "run"
               /\ Interpreted(last'.pc, last'.end).stack = stack']_vars

\* C12 fails: the compiled region of ProgOpen, entered with i = 0, has
\* returned resume PC 31 with i = 1; the interpreter reaches 31 with i = 2
C12_LeftAfterOneIteration ==
  /\ prog = ProgOpen
  /\ last.op = "can_loop_jit"
  /\ last.ran
  /\ last.ret = Some(31)
  /\ stack = <<Number(1)>>

\* the emission state gen_body leaves for the loop region [vm_pc, end) when
\* the labels map is iterated in order
LoopBody(end, arg_vars, local_vars, order) ==
  gen_body(GenContext(prog, module, LoopDecl(FreshSuffix(module)), func_info, vm_pc, end, FALSE),
           vm_pc, BindSlots(BindSlots(NewGen, arg_vars, 1, TRUE), local_vars, 1, FALSE), order)

\* the opcodes of the instructions from pc up to the next END or
\* CREATE_CONTEXT
RECURSIVE Opcodes(_, _)
Opcodes(p, pc) ==
  IF ~InBuf(p.insts, pc, 1) \/ Byte(p.insts, pc) \in {END, CREATE_CONTEXT} THEN {}
  ELSE LET op == Byte(p.insts, pc)
       IN {op} \cup Opcodes(p, pc + (IF op \in ScanWidth1 \cup {RETURN, SEQ, SNE} THEN 1
                                     ELSE IF op = PUSH_INT8 THEN 2
                                     ELSE IF op = ASG_FREST_PARAM THEN 9 ELSE 5))

\* the opcodes of C19: pushes of numbers and booleans, arithmetic,
\* comparisons, slot accesses and jumps (RETURN besides, in a function)
NumericOpcodes ==
  {PUSH_INT8, PUSH_INT32, PUSH_TRUE, PUSH_FALSE, ADD, SUB, MUL, DIV, REM, NEG,
   LT, LE, GT, GE, EQ, NE, SEQ, SNE, GET_LOCAL, SET_LOCAL, GET_ARG_LOCAL, SET_ARG_LOCAL,
   JMP, JMP_IF_FALSE}

\* C13: in the function compiled for a loop, the block of every scanned jump
\* target at which emission positioned no block (a target outside the region
\* is one) is the single instruction `ret i32 t`, t the target; and a region
\* with such targets whose opcodes are all of NumericOpcodes, SEQ and SNE
\* (which the scanners reject) apart, compiles.
C13_ResumeStubs ==
  [][(last'.op = "can_loop_jit" /\ last'.gen # "none")
       => /\ Opcodes(prog, last'.pc) \subseteq NumericOpcodes \ {SEQ, SNE}
               => last'.gen = "ok"
          /\ last'.gen = "ok" =>
               LET info == loop_info'[last'.pc]
                   f == module'[info.llvm_func]
               IN \E order \in Orders(LabelKeys(prog.insts, last'.pc, last'.end, FALSE)) :
                    LET g == LoopBody(last'.end, info.arg_vars_id, info.local_vars_id, order)
                    IN /\ f.blocks = TerminateBlocks(g.blocks, IRV("const", "i32", last'.end))
                       /\ \A t \in (DOMAIN g.labels) \ g.positioned :
                            /\ Len(f.blocks[g.labels[t]]) = 1
                            /\ f.blocks[g.labels[t]][1].op = "ret"
                            /\ f.blocks[g.labels[t]][1].args = <<IRV("const", "i32", t)>>]_vars

\* C13 happens: the region [0, 26) of ProgOpen, whose one jump target 31 lies
\* outside it, has just been compiled, and block 2 of its function is the
\* stub of 31
C13_StubOutsideRegion ==
  /\ prog = ProgOpen
  /\ last.op = "can_loop_jit"
  /\ last.gen = "ok"
  /\ Has(loop_info, 0)
  /\ loop_info[0].llvm_func # NoFunc
  /\ Len(module[loop_info[0].llvm_func].blocks[2]) = 1
  /\ module[loop_info[0].llvm_func].blocks[2][1].args = <<IRV("const", "i32", 31)>>

\* the blocks of a compiled loop that emission left open: without a
\* terminator, and not the block of a jump target that was never positioned.
\* ge is the emission state before the stub loop (no label iterated yet).
OpenBlocks(ge) ==
  {b \in DOMAIN ge.blocks :
     /\ ge.blocks[b] = <<>> \/ ~IsTerminator(ge.blocks[b][Len(ge.blocks[b])])
     /\ b \notin {ge.labels[t] : t \in (DOMAIN ge.labels) \ ge.positioned}}

\* C14: in the function compiled for a loop, every block that emission left
\* without a terminator ends with `ret i32 end`, whatever the scanned jump
\* targets and whether or not they were positioned.
C14_OpenBlockReturnsEnd ==
  [][(last'.op = "can_loop_jit" /\ last'.gen = "ok")
       => LET info == loop_info'[last'.pc]
              f == module'[info.llvm_func]
          IN \A b \in OpenBlocks(LoopBody(last'.end, info.arg_vars_id, info.local_vars_id, <<>>)) :
               /\ f.blocks[b][Len(f.blocks[b])].op = "ret"
               /\ f.blocks[b][Len(f.blocks[b])].args = <<IRV("const", "i32", last'.end)>>]_vars

\* what the code does: the block open when emission ends is closed by a
\* branch to the stub of a jump target that was never positioned, when there
\* is one, and returns that target's pc; only without such a target does
\* the block end with `ret i32 end`
C14_OpenBlockEntersStub ==
  [][(last'.op = "can_loop_jit" /\ last'.gen = "ok")
       => LET info == loop_info'[last'.pc]
              f == module'[info.llvm_func]
              ge == LoopBody(last'.end, info.arg_vars_id, info.local_vars_id, <<>>)
              stubs == {ge.labels[t] : t \in (DOMAIN ge.labels) \ ge.positioned}
          IN \A b \in OpenBlocks(ge) :
               LET i == f.blocks[b][Len(f.blocks[b])]
               IN IF stubs = {} \/ b # ge.cur
                  THEN i.op = "ret" /\ i.args = <<IRV("const", "i32", last'.end)>>
                  ELSE i.op = "br" /\ i.tgt[1] \in stubs]_vars

\* C14 fails: the compiled region [0, 26) of ProgOpen; block 3, which holds
\* i = i + 1 and was open at pc 26, ends with a branch to block 2, the stub
\* that returns 31
C14_OpenBlockBranches ==
  /\ prog = ProgOpen
  /\ last.op = "can_loop_jit"
  /\ last.gen = "ok"
  /\ LET b == module[loop_info[0].llvm_func].blocks[3]
     IN b[Len(b)].op = "br" /\ b[Len(b)].tgt = <<2>>
  /\ last.ret = Some(31)

\* the constants that the code from pc up to the next END or CREATE_CONTEXT
\* pushes with PUSH_CONST: k is pushed by the instruction at pc `at`
RECURSIVE PushedConsts(_, _)
PushedConsts(p, pc) ==
  IF ~InBuf(p.insts, pc, 5) \/ Byte(p.insts, pc) \in {END, CREATE_CONTEXT} THEN {}
  ELSE LET op == Byte(p.insts, pc) IN
    IF op = PUSH_CONST
    THEN {[at |-> pc, k |-> p.const_table[get_int32_usize(p.insts, pc + 1) + 1]]}
           \cup PushedConsts(p, pc + 5)
    ELSE PushedConsts(p, pc + (IF op \in ScanWidth1 \cup {RETURN, SEQ, SNE} THEN 1
                               ELSE IF op = PUSH_INT8 THEN 2
                               ELSE IF op = ASG_FREST_PARAM THEN 9 ELSE 5))

\* the entry pcs of the function descriptors among them
PushedFuncs(p, pc) == {x.k.v : x \in {y \in PushedConsts(p, pc) : y.k.tag = "Function"}}

\* the instructions of function f of module m
Instructions(m, f) == {m[f].blocks[b][i] : <<b, i>> \in
                         {x \in (DOMAIN m[f].blocks) \X (1..20) : x[2] <= Len(m[f].blocks[x[1]])}}

C16_SelfRecursion ==
  [][/\ \A pc \in prog.funcs :
          (/\ pc \in PushedFuncs(prog, pc + 5)
           /\ last'.op = "can_jit" /\ last'.pc = pc /\ last'.gen # "none")
          => /\ ~Has(func_info, pc) \/ func_info[pc].llvm_func = NoFunc
             /\ (PushedFuncs(prog, pc + 5) = {pc} /\ last'.argc = 1) => last'.gen = "ok"
             /\ last'.gen = "ok"
                  => \E i \in Instructions(module', func_info'[pc].llvm_func) :
                       i.op = "call" /\ i.args[1] = FnV(func_info'[pc].llvm_func)
     /\ \A l \in prog.loops : \A q \in PushedFuncs(prog, l[1]) :
          (last'.op = "can_loop_jit" /\ last'.pc = l[1] /\ last'.gen # "none")
          => /\ ~(Has(func_info, q) /\ func_info[q].llvm_func # NoFunc)
                  => last'.gen = "err" /\ loop_info'[l[1]].cannot_jit
             /\ last'.gen = "ok"
                  => \E i \in Instructions(module', loop_info'[l[1]].llvm_func) :
                       i.op = "call" /\ i.args[1] = FnV(func_info[q].llvm_func)]_vars

\* C16 happens: r of ProgRec has been compiled by the first query that
\* reached the code generator, and calls itself
C16_CompiledFirstTime ==
  /\ prog = ProgRec
  /\ last.op = "can_jit" /\ last.pc = 0 /\ last.gen = "ok"
  /\ count[0] = 5
  /\ func_info[0].llvm_func = Len(module)
  /\ \E i \in Instructions(module, Len(module)) : i.op = "call" /\ i.args[1] = FnV(Len(module))

\* the opcodes that pop an operand with try_stack!
PopsOperand ==
  {ADD, SUB, MUL, DIV, REM, LT, GT, LE, GE, EQ, NE, SEQ, SNE, NEG,
   SET_ARG_LOCAL, SET_LOCAL, JMP_IF_FALSE, RETURN}

\* the functions of the program that apply ADD to a string constant: the
\* PUSH_CONST of the string is followed by ADD
AddsString(pc) ==
  \E x \in PushedConsts(prog, pc + 5) :
    x.k.tag = "String" /\ InBuf(prog.insts, x.at + 5, 1) /\ Byte(prog.insts, x.at + 5) = ADD

\* C17: every compiling query of a function that applies ADD to a string
\* constant fails in code generation, returns None, and leaves the record
\* with cannot_jit = true.
C17_StringAddBlocks ==
  [][\A pc \in prog.funcs :
       (AddsString(pc) /\ last'.op = "can_jit" /\ last'.pc = pc /\ last'.gen # "none")
       => /\ last'.gen = "err"
          /\ last'.ret = None
          /\ func_info'[pc].cannot_jit]_vars

\* what the code does: emission fails at every opcode of PopsOperand that pops
\* an operand carrying a literal (a string constant, an object constant, a
\* folded member), and a function that applies ADD to a string constant is
\* never compiled; its record is blocked unless the verifier stopped the
\* process on the half-built function
C17_LiteralOperandFails ==
  [][\A pc \in prog.funcs :
       (AddsString(pc) /\ last'.op = "can_jit" /\ last'.pc = pc /\ last'.gen # "none")
       => /\ last'.gen = "err"
          /\ last'.ret = None
          /\ func_info'[pc].func_addr = NoFunc
          /\ func_info'[pc].cannot_jit \/ aborted'
          /\ \A op \in PopsOperand, lit \in {Val("String", 1), Val("Object", 1), Number(1)},
                rhs \in BOOLEAN :
               LET num == [val |-> IRV("const", "double", 0), lit |-> NoLit]
                   str == [val |-> NullV, lit |-> lit]
                   g == [BindSlots(NewGen, <<0>>, 1, TRUE) EXCEPT
                           !.stack = IF rhs THEN <<num, str>> ELSE <<str, num>>,
                           !.labels = (5 :> 1)]
                   c == GenContext(Program(OpI32(op, 0), <<>>, EmptyMap, {}, {}, 0, 0, 0),
                                   module, LoopDecl(0), func_info, 0, 5, TRUE)
               IN (rhs \/ op \in {ADD, SUB, MUL, DIV, REM, LT, GT, LE, GE, EQ, NE, SEQ, SNE})
                    => GenOp(g, c).st = "err"]_vars

\* C17 fails: k of ProgMixed, queried with one argument, was rejected at its
\* ADD of a string constant, and the process is dead with the record unblocked
C17_StringAddAborted ==
  /\ prog = ProgMixed
  /\ AddsString(0)
  /\ last.op = "can_jit" /\ last.pc = 0 /\ last.argc = 1
  /\ last.gen = "err"
  /\ aborted
  /\ func_info[0] = FuncInfo_new

\* C18: run_llvm_func handed a vector that holds a value that is no Number
\* does not call the native function and does not end the process.
C18_ShimRefusesArguments ==
  [][(/\ last'.op = "run_llvm_func"
      /\ \E i \in DOMAIN last'.args : last'.args[i].tag # "Number")
       => ~last'.ran /\ ~aborted']_vars

\* what the code does: the native function is not called, and the process
\* ends in unimplemented!()
C18_ShimPanics ==
  [][(/\ last'.op = "run_llvm_func"
      /\ \E i \in DOMAIN last'.args : last'.args[i].tag # "Number")
       => ~last'.ran /\ last'.ret = None /\ aborted']_vars

\* C18 fails: the compiled f of ProgAdd was called with undefined as its one
\* argument and the process is dead
C18_UndefinedArgumentPanicked ==
  /\ prog = ProgAdd
  /\ last.op = "run_llvm_func"
  /\ last.args = <<Undefined>>
  /\ ~last.ran
  /\ aborted

\* C19: the code generation of a function (queried with one to three
\* arguments, its argument slots declared) or of a loop region built only
\* from the opcodes of NumericOpcodes returns no error.
C19_NumericRegionsCompile ==
  [][/\ \A pc \in prog.funcs :
          (/\ Opcodes(prog, pc + 5) \subseteq NumericOpcodes \cup {RETURN}
           /\ last'.op = "can_jit" /\ last'.pc = pc /\ last'.gen # "none"
           /\ last'.argc \in 1..3)
          => last'.gen # "err"
     /\ \A l \in prog.loops :
          (/\ Opcodes(prog, l[1]) \subseteq NumericOpcodes
           /\ last'.op = "can_loop_jit" /\ last'.pc = l[1] /\ last'.gen # "none")
          => last'.gen # "err"]_vars

\* what the code does: such a region is generated without error exactly when
\* it holds neither SEQ nor SNE, which both scanners reject
C19_StrictComparisonsRejected ==
  [][/\ \A pc \in prog.funcs :
          (/\ Opcodes(prog, pc + 5) \subseteq NumericOpcodes \cup {RETURN}
           /\ last'.op = "can_jit" /\ last'.pc = pc /\ last'.gen # "none"
           /\ last'.argc \in 1..3)
          => (last'.gen = "err" <=> Opcodes(prog, pc + 5) \cap {SEQ, SNE} # {})
     /\ \A l \in prog.loops :
          (/\ Opcodes(prog, l[1]) \subseteq NumericOpcodes
           /\ last'.op = "can_loop_jit" /\ last'.pc = l[1] /\ last'.gen # "none")
          => (last'.gen = "err" <=> Opcodes(prog, l[1]) \cap {SEQ, SNE} # {})]_vars

\* C19 fails: q of ProgStrict, queried with one argument, was rejected by the
\* label scan at its SEQ and is blocked
C19_StrictEqualityRejected ==
  /\ prog = ProgStrict
  /\ last.op = "can_jit" /\ last.pc = 0 /\ last.argc = 1
  /\ last.gen = "err"
  /\ func_info[0].cannot_jit
  /\ LabelScan(prog.insts, 5, Len(prog.insts), TRUE,
               [labels |-> EmptyMap, blocks |-> << <<>> >>, st |-> "ok"]).st = "err"

\* C20: register_return_type leaves an entry the return-type map already
\* holds at its pc as it is: Number is not replaced by Bool, nor Bool by
\* Number.
C20_EntryKeepsType ==
  [][(last'.op = "register_return_type" /\ Has(return_ty_map, last'.pc)) =>
       return_ty_map'[last'.pc] = return_ty_map[last'.pc]]_vars

\* what the code does: a Number or a Bool overwrites the entry at its pc with
\* its own type, whatever the entry was; any other value, and every other
\* pc, leaves the map as it is
C20_EntryFollowsLastValue ==
  [][last'.op = "register_return_type" =>
       /\ last'.val \in {"Number", "Bool"} =>
            /\ Has(return_ty_map', last'.pc) /\ return_ty_map'[last'.pc] = last'.val
            /\ \A pc \in DOMAIN return_ty_map \ {last'.pc} :
                 Has(return_ty_map', pc) /\ return_ty_map'[pc] = return_ty_map[pc]
       /\ last'.val \notin {"Number", "Bool"} => return_ty_map' = return_ty_map]_vars

\* C20 fails: the function at a pc was compiled as returning an i1, so its
\* entry was Bool at that time; a Number has now been registered at the pc
\* and the entry is Number
C20_BoolReplacedByNumber ==
  /\ last.op = "register_return_type"
  /\ last.val = "Number"
  /\ Has(func_info, last.pc)
  /\ func_info[last.pc].llvm_func # NoFunc
  /\ module[func_info[last.pc].llvm_func].ret_ty = "i1"
  /\ Has(return_ty_map, last.pc)
  /\ return_ty_map[last.pc] = "Number"

\* C21: the slot lists of a loop record are those its code was generated
\* with and are never changed once the loop is compiled; the compilation
\* environment binds the slot at place i of the argument (local) list to
\* element i - 1 of the first (second) pointer parameter, and every run of
\* the shim loads that element from the same slot and writes it back there.
C21_SlotOrder ==
  [][/\ \A l \in prog.loops :
          (Has(loop_info, l[1]) /\ Compiled(loop_info[l[1]]))
            => loop_info'[l[1]] = loop_info[l[1]]
     /\ (last'.op = "can_loop_jit" /\ Has(loop_info', last'.pc)
         /\ Compiled(loop_info'[last'.pc]))
          => LET info == loop_info'[last'.pc]
                 f == module'[info.llvm_func]
                 env == BindSlots(BindSlots(NewGen, info.arg_vars_id, 1, TRUE),
                                  info.local_vars_id, 1, FALSE).env
                 Bound(ids, is_param) ==
                   \A i \in DOMAIN ids :
                     \E k \in DOMAIN f.blocks[1] :
                       /\ f.blocks[1][k].id = env[<<ids[i], is_param>>].v
                       /\ f.blocks[1][k].op = "gep"
                       /\ f.blocks[1][k].args =
                            <<IRV("param", "double*", IF is_param THEN 0 ELSE 1),
                              IRV("const", "i32", i - 1)>>
                 mem == [p \in {<<"arr", 0, i - 1>> : i \in DOMAIN info.arg_vars_id}
                               \cup {<<"arr", 1, i - 1>> : i \in DOMAIN info.local_vars_id} |->
                           IF p[2] = 0 THEN stack[prog.bp + info.arg_vars_id[p[3] + 1] + 1].v
                           ELSE stack[prog.lp + info.local_vars_id[p[3] + 1] + 1].v]
             IN /\ Bound(info.arg_vars_id, TRUE)
                /\ Bound(info.local_vars_id, FALSE)
                /\ last'.gen = "ok" =>
                     \E order \in Orders(LabelKeys(prog.insts, last'.pc, last'.end, FALSE)) :
                       f.blocks =
                         TerminateBlocks(LoopBody(last'.end, info.arg_vars_id,
                                                  info.local_vars_id, order).blocks,
                                         IRV("const", "i32", last'.end))
                /\ last'.ran =>
                     stack' = LoopReturned(ExecIR(f, << <<"arr", 0, 0>>, <<"arr", 1, 0>> >>,
                                                  NewExec(mem, MaxFuel)),
                                           stack, prog.bp, prog.lp,
                                           info.arg_vars_id, info.local_vars_id).stack]_vars

\* C21 happens: the loop of ProgSwap was compiled with its two local slots
\* in the order 1, 0 and has run with i = 0 and j = 1: i is now 1
C21_SecondOrderRan ==
  /\ prog = ProgSwap
  /\ last.op = "can_loop_jit"
  /\ last.ran
  /\ last.gen = "none"
  /\ loop_info[0].local_vars_id = <<1, 0>>
  /\ stack = <<Number(1), Number(1)>>

\* the instructions of [pc, end) up to the first whose opcode is in stops,
\* as pairs <<position, opcode>>
RECURSIVE Decoded(_, _, _, _)
Decoded(p, pc, end, stops) ==
  IF ~(pc < end) \/ Byte(p.insts, pc) \in stops THEN {}
  ELSE LET op == Byte(p.insts, pc)
       IN {<<pc, op>>}
          \cup Decoded(p, pc + (IF op \in ScanWidth1 \cup {END, RETURN, SEQ, SNE} THEN 1
                                ELSE IF op = PUSH_INT8 THEN 2
                                ELSE IF op = ASG_FREST_PARAM THEN 9 ELSE 5), end, stops)

\* C22: when a can_loop_jit query generates code, collect_arg_and_local_vars
\* fails exactly when the region holds an opcode it has no arm for; otherwise
\* its argument set is the set of immediates of the region's GET_ARG_LOCAL and
\* SET_ARG_LOCAL, its local set that of GET_LOCAL and SET_LOCAL, the lists of
\* the record hold each of those ids once, and the compiled function reaches
\* its slots only through the elements bound to those lists (it declares no
\* other variable).
C22_CollectedSlots ==
  [][(last'.op = "can_loop_jit" /\ last'.gen # "none")
       => LET v == collect_arg_and_local_vars(prog.insts, last'.pc, last'.end)
              SlotIds(ops) ==
                {get_int32_usize(prog.insts, x[1] + 1) :
                   x \in {y \in Decoded(prog, last'.pc, last'.end, {}) : y[2] \in ops}}
              accepted == {END, RETURN, ASG_FREST_PARAM, PUSH_INT8, GET_LOCAL, SET_LOCAL,
                           GET_ARG_LOCAL, SET_ARG_LOCAL} \cup ScanWidth1 \cup CollectWidth5
          IN /\ v.st = "err" <=> ~(Opcodes(prog, last'.pc) \subseteq accepted)
             /\ v.st = "err" => (last'.gen = "err" /\ loop_info'[last'.pc].cannot_jit)
             /\ v.st = "ok" =>
                  /\ v.args = SlotIds({GET_ARG_LOCAL, SET_ARG_LOCAL})
                  /\ v.locals = SlotIds({GET_LOCAL, SET_LOCAL})
             /\ last'.gen = "ok" =>
                  LET info == loop_info'[last'.pc] IN
                  /\ Len(info.arg_vars_id) = Cardinality(v.args)
                  /\ {info.arg_vars_id[i] : i \in DOMAIN info.arg_vars_id} = v.args
                  /\ Len(info.local_vars_id) = Cardinality(v.locals)
                  /\ {info.local_vars_id[i] : i \in DOMAIN info.local_vars_id} = v.locals
                  /\ \A i \in Instructions(module', info.llvm_func) : i.op # "alloca"]_vars

\* C22 happens: the loop of ProgSwap, which reads local slot 0 twice, writes
\* it once and reads local slot 1 once, is compiled with a record that lists
\* the two local slots once each and no argument slot
C22_TwoLocalsOnce ==
  /\ prog = ProgSwap
  /\ last.op = "can_loop_jit"
  /\ last.gen = "ok"
  /\ Len(loop_info[0].local_vars_id) = 2
  /\ loop_info[0].arg_vars_id = <<>>

\* the opcodes the emission pass steps over without emitting anything
SkippedOpcodes ==
  {PUSH_THIS, PUSH_ARGUMENTS, SET_MEMBER, GET_GLOBAL, CONSTRUCT, CREATE_OBJECT, CREATE_ARRAY,
   SET_GLOBAL, ASG_FREST_PARAM}

\* C23: a function or a loop region that holds one of the opcodes of
\* SkippedOpcodes is never reported as compiled by the query that generates
\* its code.
C23_SkippedOpcodeFails ==
  [][/\ \A pc \in prog.funcs :
          (/\ Opcodes(prog, pc + 5) \cap SkippedOpcodes # {}
           /\ last'.op = "can_jit" /\ last'.pc = pc /\ last'.gen # "none")
          => ~last'.ret.some
     /\ \A l \in prog.loops :
          (/\ Opcodes(prog, l[1]) \cap SkippedOpcodes # {}
           /\ last'.op = "can_loop_jit" /\ last'.pc = l[1] /\ last'.gen # "none")
          => ~last'.ret.some]_vars

\* what the code does: the emission pass steps over every opcode of
\* SkippedOpcodes and emits nothing for it, so t of ProgGlobal, queried with
\* one to three arguments while its return type is Number, compiles, as a
\* function that returns 1 and stores nothing but its parameters
C23_SkippedOpcodeIgnored ==
  [][(last'.op = "can_jit" /\ last'.gen # "none")
       => /\ \A op \in SkippedOpcodes :
               LET c == GenContext([prog EXCEPT !.insts = <<op>>], module,
                                   LoopDecl(0), func_info, 0, 1, TRUE)
               IN GenOp(NewGen, c) =
                    [NewGen EXCEPT !.pc = IF op = ASG_FREST_PARAM THEN 9
                                          ELSE IF op \in {PUSH_THIS, PUSH_ARGUMENTS, SET_MEMBER}
                                               THEN 1 ELSE 5]
          /\ (/\ prog = ProgGlobal
              /\ FuncRetTy(return_ty_map, 0) = "Number"
              /\ last'.argc \in 1..3)
               => /\ last'.gen = "ok"
                  /\ last'.ret.some
                  /\ \A i \in Instructions(module', last'.ret.v) :
                       /\ i.op \in {"alloca", "store", "load", "ret"}
                       /\ i.op = "ret" => i.args = <<IRV("const", "double", 1)>>
                       /\ i.op = "store" => i.args[1].k = "param"]_vars

\* C23 fails: t of ProgGlobal, whose body holds SET_GLOBAL, has just been
\* compiled and its pointer returned
C23_SetGlobalCompiled ==
  /\ prog = ProgGlobal
  /\ last.op = "can_jit"
  /\ last.gen = "ok"
  /\ last.ret.some
  /\ func_info[0].func_addr = last.ret.v

\* C24: a function (declared as returning a Bool, queried with one to three
\* arguments) or a loop region that holds SEQ or SNE among opcodes of
\* NumericOpcodes is compiled by the query that generates its code.
C24_StrictComparisonsCompile ==
  [][/\ \A pc \in prog.funcs :
          (/\ Opcodes(prog, pc + 5) \cap {SEQ, SNE} # {}
           /\ Opcodes(prog, pc + 5) \subseteq NumericOpcodes \cup {RETURN}
           /\ FuncRetTy(return_ty_map, pc) = "Bool"
           /\ last'.op = "can_jit" /\ last'.pc = pc /\ last'.gen # "none"
           /\ last'.argc \in 1..3)
          => last'.ret.some
     /\ \A l \in prog.loops :
          (/\ Opcodes(prog, l[1]) \cap {SEQ, SNE} # {}
           /\ Opcodes(prog, l[1]) \subseteq NumericOpcodes
           /\ last'.op = "can_loop_jit" /\ last'.pc = l[1] /\ last'.gen # "none")
          => last'.gen = "ok"]_vars

\* what the code does: the emission pass lowers SEQ as EQ and SNE as NE, but
\* the label scan and collect_arg_and_local_vars, which accept EQ and NE,
\* return an error on SEQ and on SNE, so such a region is blocked by the
\* query that would compile it
C24_ScannersRejectStrict ==
  [][(last'.op \in {"can_jit", "can_loop_jit"} /\ last'.gen # "none")
       => /\ \A w \in {<<SEQ, EQ>>, <<SNE, NE>>} :
               LET g == Push(Push(NewGen, IRV("const", "double", 1), NoLit),
                             IRV("const", "double", 2), NoLit)
                   c(op) == GenContext([prog EXCEPT !.insts = <<op>>], module, LoopDecl(0),
                                       func_info, 0, 1, TRUE)
                   s0 == [labels |-> EmptyMap, blocks |-> << <<>> >>, st |-> "ok"]
               IN /\ GenOp(g, c(w[1])) = GenOp(g, c(w[2]))
                  /\ GenOp(g, c(w[1])).st = "ok"
                  /\ LabelScan(<<w[1]>>, 0, 1, TRUE, s0).st = "err"
                  /\ LabelScan(<<w[2]>>, 0, 1, TRUE, s0).st = "ok"
                  /\ collect_arg_and_local_vars(<<w[1]>>, 0, 1).st = "err"
                  /\ collect_arg_and_local_vars(<<w[2]>>, 0, 1).st = "ok"
          /\ \A pc \in prog.funcs :
               (/\ Opcodes(prog, pc + 5) \cap {SEQ, SNE} # {}
                /\ Opcodes(prog, pc + 5) \subseteq NumericOpcodes \cup {RETURN}
                /\ last'.op = "can_jit" /\ last'.pc = pc /\ last'.argc \in 1..3)
               => (last'.gen = "err" /\ ~last'.ret.some /\ func_info'[pc].cannot_jit)
          /\ \A l \in prog.loops :
               (/\ Opcodes(prog, l[1]) \cap {SEQ, SNE} # {}
                /\ Opcodes(prog, l[1]) \subseteq NumericOpcodes
                /\ last'.op = "can_loop_jit" /\ last'.pc = l[1])
               => (last'.gen = "err" /\ ~last'.ret.some /\ loop_info'[l[1]].cannot_jit)]_vars

\* C24 fails: the loop `while (i === 1) { }` of ProgBadLoops, i a Number,
\* was rejected and is blocked
C24_StrictLoopBlocked ==
  /\ prog = ProgBadLoops
  /\ last.op = "can_loop_jit" /\ last.pc = 25
  /\ last.gen = "err"
  /\ stack[prog.lp + 1].tag = "Number"
  /\ loop_info[25].cannot_jit
  /\ loop_info[25].func_addr = NoFunc

\* C25: when a query generates code, for every JMP and JMP_IF_FALSE of the
\* region, at q with the signed immediate d: the label scan records
\* q + 5 + d (and nothing else); the interpreter goes from q to q + 5 + d on
\* a JMP and on a JMP_IF_FALSE that pops false, and to q + 5 on one that pops
\* true; the emission pass, given the labels of the scan, finds the label of
\* q + 5 + d and branches to its block on a JMP, and on a JMP_IF_FALSE
\* branches to it when the condition is 0 and to a fresh block, in which the
\* emission goes on at q + 5, when it is 1.
C25_JumpTargets ==
  [][(last'.op \in {"can_jit", "can_loop_jit"} /\ last'.gen # "none")
       => LET isf == last'.op = "can_jit"
              bgn == IF isf THEN last'.pc + 5 ELSE last'.pc
              end == IF isf THEN Len(prog.insts) ELSE last'.end
              scan == LabelScan(prog.insts, bgn, end, isf,
                                [labels |-> EmptyMap, blocks |-> << <<>> >>, st |-> "ok"])
              jumps == {x \in Decoded(prog, bgn, end, {END} \cup
                                        (IF isf THEN {CREATE_CONTEXT} ELSE {})) :
                          x[2] \in {JMP, JMP_IF_FALSE}}
              Target(q) == CHOOSE t \in 0..Len(prog.insts) :
                             I32(t - q - 5) = SubSeq(prog.insts, q + 2, q + 5)
              run(q, v) == [pc |-> q, stack |-> <<v>>, fuel |-> 1, st |-> "run"]
              gen(q) == [NewGen EXCEPT !.pc = q, !.labels = scan.labels,
                                       !.blocks = scan.blocks,
                                       !.stack = <<[val |-> IRV("const", "i1", 0),
                                                    lit |-> NoLit]>>]
              c == GenContext(prog, module, LoopDecl(0), func_info, last'.pc, end, isf)
          IN scan.st = "ok" =>
               /\ DOMAIN scan.labels = {Target(x[1]) : x \in jumps}
               /\ \A x \in jumps :
                    LET q == x[1]
                        t == Target(q)
                        g == GenOp(gen(q), c)
                        b == g.blocks[1]
                    IN /\ I32(t - q - 5) = SubSeq(prog.insts, q + 2, q + 5)
                       /\ g.st = "ok" /\ g.pc = q + 5
                       /\ IF x[2] = JMP
                          THEN /\ do_run(prog.insts, 0, 0, t, run(q, Bool(0))).pc = t
                               /\ b[Len(b)].op = "br"
                               /\ b[Len(b)].tgt = <<scan.labels[t]>>
                               /\ g.cur = 1
                          ELSE /\ do_run(prog.insts, 0, 0, t, run(q, Bool(0))).pc = t
                               /\ do_run(prog.insts, 0, 0, q + 5, run(q, Bool(1))).pc = q + 5
                               /\ do_run(prog.insts, 0, 0, q + 5, run(q, Bool(1))).st = "run"
                               /\ b[Len(b)].op = "condbr"
                               /\ b[Len(b)].tgt = <<g.cur, scan.labels[t]>>
                               /\ g.cur = Len(scan.blocks) + 1
                               /\ g.cur \notin {scan.labels[k] : k \in DOMAIN scan.labels}
                               /\ g.blocks[g.cur] = <<>>]_vars

\* C25 happens: the loop of ProgLoop, whose exit jump at 8 has the immediate
\* 34 and whose back jump at 42 has the immediate -47, has been compiled
C25_BackwardJumpCompiled ==
  /\ prog = ProgLoop
  /\ last.op = "can_loop_jit"
  /\ last.gen = "ok"
  /\ get_int32_i32(prog.insts, 43) = -47
  /\ LabelKeys(prog.insts, 0, 47, FALSE) = {0, 47}

\* C26: the return type under which run_llvm_func calls a compiled function
\* and wraps its result is the type the function was declared with when it
\* was compiled.
C26_CalledAsDeclared ==
  [][(last'.op = "run_llvm_func" /\ last'.ran)
       => to_llvmty(last'.val) = module[last.ret.v].ret_ty]_vars

\* what the code does: the shim takes the type from the entry return_ty_map
\* holds at the pc when the call is made (Number without one), whatever the
\* function was declared with; the result is the one the function computes
\* only when that type and the number of arguments are those of the function
C26_CalledAsRegisteredNow ==
  [][(last'.op = "run_llvm_func" /\ last'.ran)
       => /\ last'.val = FuncRetTy(return_ty_map, last.pc)
          /\ (/\ to_llvmty(last'.val) = module[last.ret.v].ret_ty
              /\ Len(last'.args) = Len(module[last.ret.v].params))
               => last'.ret =
                    Some(ExecIR(module[last.ret.v],
                                [i \in DOMAIN last'.args |-> last'.args[i].v],
                                NewExec(EmptyMap, MaxFuel)).ret)]_vars

\* C26 fails: a function declared as returning a double has been called as
\* one returning a bool, a Bool having been registered at its pc since it was
\* compiled
C26_DoubleCalledAsBool ==
  /\ last.op = "run_llvm_func"
  /\ last.ran
  /\ last.val = "Bool"
  /\ Has(func_info, last.pc)
  /\ func_info[last.pc].llvm_func # NoFunc
  /\ module[func_info[last.pc].llvm_func].ret_ty = "double"
  /\ Len(last.args) = Len(module[func_info[last.pc].llvm_func].params)

\* C27: a can_loop_jit query on a compiled loop one of whose named slots
\* holds no Number returns None and leaves the loop record and the module as
\* they were (cannot_jit false, the pointer and the slot lists kept); every
\* later query at that pc made with all named slots holding Numbers runs the
\* stored code, without generating code and without changing the record.
C27_RefusalKeepsRecord ==
  [][\A l \in prog.loops :
       (/\ last'.op = "can_loop_jit" /\ last'.pc = l[1]
        /\ Has(loop_info, l[1]) /\ Compiled(loop_info[l[1]]))
       => LET info == loop_info[l[1]]
              numbers == AllNumbers(stack, prog.bp, prog.lp,
                                    info.arg_vars_id, info.local_vars_id)
          IN /\ ~numbers =>
                  /\ last'.ret = None
                  /\ l[1] \in refused'
                  /\ loop_info' = loop_info
                  /\ ~loop_info'[l[1]].cannot_jit
                  /\ module' = module
             /\ (numbers /\ l[1] \in refused) =>
                  /\ last'.ran
                  /\ last'.gen = "none"
                  /\ loop_info' = loop_info
                  /\ module' = module
                  /\ stack' = run_loop_llvm_func(module[info.func_addr], stack, prog.bp,
                                                 prog.lp, info.arg_vars_id,
                                                 info.local_vars_id).stack]_vars

\* C27 happens: a compiled loop whose shim had refused to run it has now been
\* run by a query that compiled nothing
C27_RanAfterRefusal ==
  /\ last.op = "can_loop_jit"
  /\ last.pc \in refused
  /\ last.ran
  /\ last.gen = "none"
  /\ loop_info[last.pc].func_addr # NoFunc
  /\ ~loop_info[last.pc].cannot_jit

\* C28: every block of every function the code generators have added to the
\* module ends with a terminator and holds no other terminator.
C28_OneTerminatorPerBlock ==
  \A f \in DOMAIN module :
    module[f].name = "func" =>
      \A b \in DOMAIN module[f].blocks :
        LET blk == module[f].blocks[b] IN
          /\ blk # <<>>
          /\ \A k \in DOMAIN blk : IsTerminator(blk[k]) <=> k = Len(blk)

\* what the code does: the post-pass makes the last instruction of every
\* block a terminator, but emission appends loads, stores, returns and
\* conditional branches without looking at the block, so a block may hold a
\* terminator before its last instruction; the verifier then ends the process
C28_LastIsTerminator ==
  \A f \in DOMAIN module :
    module[f].name = "func" =>
      \A b \in DOMAIN module[f].blocks :
        LET blk == module[f].blocks[b] IN
          /\ blk # <<>>
          /\ IsTerminator(blk[Len(blk)])
          /\ (\E k \in 1..(Len(blk) - 1) : IsTerminator(blk[k])) => aborted

\* C28 fails: the function generated for u of ProgDead holds a block with a
\* return before its last instruction, and the process has ended
C28_ReturnInsideBlock ==
  /\ prog = ProgDead
  /\ last.op = "can_jit"
  /\ last.gen = "abort"
  /\ aborted
  /\ \E f \in DOMAIN module :
       /\ module[f].name = "func"
       /\ \E b \in DOMAIN module[f].blocks :
            \E k \in 1..(Len(module[f].blocks[b]) - 1) : module[f].blocks[b][k].op = "ret"


(***************************************************************************)
(* The immediates of PUSH_INT8 and PUSH_INT32, read by the compiler and by *)
(* the interpreter from the same bytes.                                    *)
(***************************************************************************)
ImmediateBytes == {0, 1, 127, 128, 255}

\* get_int32!(insts, pc, n, ty) as the two 16-bit halves <<hi, lo>> of n
\* (n = hi * 65536 + lo): at i32 the shift of the top byte by 24 wraps into
\* the sign bit, at the 64-bit isize it does not
get_int32(insts, pc, ty) ==
  LET b3 == Byte(insts, pc + 3)
  IN <<(IF ty = "i32" /\ b3 >= 128 THEN b3 - 256 ELSE b3) * 256 + Byte(insts, pc + 2),
       Byte(insts, pc + 1) * 256 + Byte(insts, pc)>>

\* one push instruction per program: PUSH_INT32 with every combination of
\* the bytes above, PUSH_INT8 with every byte
PushPrograms ==
  {Program(<<PUSH_INT32>> \o b \o <<END>>, <<>>, EmptyMap, {}, {}, 0, 0, 0) :
     b \in [1..4 -> ImmediateBytes]}
    \cup {Program(<<PUSH_INT8, b, END>>, <<>>, EmptyMap, {}, {}, 0, 0, 0) : b \in 0..255}

InitPush ==
  /\ prog \in PushPrograms
  /\ count = EmptyMap
  /\ func_info = EmptyMap
  /\ loop_info = EmptyMap
  /\ return_ty_map = EmptyMap
  /\ module = InitModule
  /\ stack = <<>>
  /\ vm_pc = 0
  /\ aborted = FALSE
  /\ observed = EmptyMap
  /\ refused = {}
  /\ last = Called("init", 0, 0, 0, "", None, "none", FALSE)

\* PUSH_INT8 in gen_body and in the interpreter: jit is the constant the
\* compiled code pushes, vm the Number the interpreter pushes
PushInt8 ==
  /\ last.op = "init"
  /\ Byte(prog.insts, 0) = PUSH_INT8
  /\ last' = [op |-> "push_int8",
              jit |-> <<0, Top(GenPushInt8(NewGen, prog.insts), 0).val.v>>,
              vm |-> <<0, do_run(prog.insts, 0, 0, 2,
                              [pc |-> 0, stack |-> <<>>, fuel |-> 1, st |-> "run"]).stack[1].v>>]
  /\ UNCHANGED <<prog, count, func_info, loop_info, return_ty_map, module, stack, vm_pc,
                 aborted, observed, refused>>

\* PUSH_INT32 in gen_body (get_int32! at isize) and in the interpreter
\* (get_int32! at i32)
PushInt32 ==
  /\ last.op = "init"
  /\ Byte(prog.insts, 0) = PUSH_INT32
  /\ last' = [op |-> "push_int32",
              jit |-> get_int32(prog.insts, 1, "isize"),
              vm |-> get_int32(prog.insts, 1, "i32")]
  /\ UNCHANGED <<prog, count, func_info, loop_info, return_ty_map, module, stack, vm_pc,
                 aborted, observed, refused>>

SpecPush == InitPush /\ [][PushInt8 \/ PushInt32]_vars

\* C29: for every immediate, the constant pushed by compiled PUSH_INT32 and
\* PUSH_INT8 equals the Number the interpreter pushes for the same bytes.
C29_SameImmediate ==
  last.op \in {"push_int8", "push_int32"} => last.jit = last.vm

\* C29, as the code behaves: PUSH_INT8 pushes the zero-extended byte on both
\* sides; the interpreter's PUSH_INT32 pushes the signed 32-bit little-endian
\* integer (negative exactly when the top bit is set); the compiled
\* PUSH_INT32 pushes the unsigned value of the four bytes, which is the
\* interpreter's value when the top bit is clear and 2^32 more otherwise.
C29_ImmediateWidth ==
  /\ last.op = "push_int8" =>
       /\ last.jit = last.vm
       /\ last.vm = <<0, Byte(prog.insts, 1)>>
  /\ last.op = "push_int32" =>
       LET top == Byte(prog.insts, 4) >= 128
           run == do_run(prog.insts, 0, 0, 5,
                         [pc |-> 0, stack |-> <<>>, fuel |-> 1, st |-> "run"])
       IN /\ run.stack = <<Number(last.vm[1] * 65536 + last.vm[2])>>
          /\ last.vm[1] \in -32768..32767
          /\ (last.vm[1] - (Byte(prog.insts, 4) * 256 + Byte(prog.insts, 3))) % 65536 = 0
          /\ last.vm[2] = Byte(prog.insts, 2) * 256 + Byte(prog.insts, 1)
          /\ last.vm[1] < 0 <=> top
          /\ last.jit[2] = last.vm[2]
          /\ last.jit[1] = last.vm[1] + (IF top THEN 65536 ELSE 0)
          /\ ~top => Top(GenPushInt32(NewGen, prog.insts), 0).val
                       = IRV("const", "double", last.jit[1] * 65536 + last.jit[2])

\* C29 witness: a PUSH_INT32 whose immediate has the top bit set has been
\* read on both sides, and the two constants differ.
C29_TopBitSet ==
  /\ last.op = "push_int32"
  /\ SubSeq(prog.insts, 2, 5) = <<255, 255, 255, 255>>
  /\ last.vm = <<-1, 65535>>
  /\ last.jit = <<65535, 65535>>

\* C30: whenever can_jit reports a function as compiled, every ret of its
\* code returns a value of the function's return type, a double for Number
\* and a 1-bit value for Bool, and when the query has just generated the code
\* that type is the entry of return_ty_map at the pc (Number without one); a
\* query that generates a body with a ret of another type reports nothing and
\* leaves the record without code.
C30_ReturnTypeMatches ==
  [][last'.op = "can_jit"
       => LET pc == last'.pc
              mismatched(f) ==
                \E b \in DOMAIN f.blocks : \E k \in DOMAIN f.blocks[b] :
                  /\ f.blocks[b][k].op = "ret"
                  /\ f.blocks[b][k].args[1].ty # f.ret_ty
          IN /\ last'.ret # None =>
                  /\ Has(func_info', pc)
                  /\ func_info'[pc].llvm_func # NoFunc
                  /\ module'[func_info'[pc].llvm_func].ret_ty \in {"double", "i1"}
                  /\ ~mismatched(module'[func_info'[pc].llvm_func])
                  /\ last'.gen = "ok" =>
                       /\ FuncRetTy(return_ty_map, pc) \in {"Number", "Bool"}
                       /\ module'[func_info'[pc].llvm_func].ret_ty
                            = (IF FuncRetTy(return_ty_map, pc) = "Number" THEN "double"
                               ELSE "i1")
             /\ (/\ last'.gen # "none"
                 /\ Len(module') > Len(module)
                 /\ mismatched(module'[Len(module')]))
                  => /\ last'.ret = None
                     /\ Has(func_info', pc) => func_info'[pc].llvm_func = NoFunc]_vars

\* C30 witness: can_jit has just compiled and reported g(x) = x < 2 with a
\* Bool registered at its pc: the function is declared as returning a 1-bit
\* value and its RETURN returns the result of the comparison.
C30_BoolReturnCompiled ==
  /\ prog = ProgLess
  /\ last.op = "can_jit"
  /\ last.gen = "ok"
  /\ last.ret # None
  /\ return_ty_map[last.pc] = "Bool"
  /\ module[func_info[last.pc].llvm_func].ret_ty = "i1"
  /\ \E b \in DOMAIN module[func_info[last.pc].llvm_func].blocks :
       \E k \in DOMAIN module[func_info[last.pc].llvm_func].blocks[b] :
         LET i == module[func_info[last.pc].llvm_func].blocks[b][k]
         IN i.op = "ret" /\ i.args[1].k = "inst" /\ i.args[1].ty = "i1"

====
